---- MODULE Spec2Model ----
(***************************************************************************)
(* The resilient, concurrent access layer of the mail client.              *)
(*                                                                         *)
(*   ConcurrentFetcher   the semaphore pattern of "Concurrent Fetching"    *)
(*                       (src/docs/gogcli-gmail-implementation.md 149-186) *)
(*   ResilientTransport  the RetryTransport of "Retry & Error Handling"    *)
(*                       (same file, 69-93) with the circuit breaker of    *)
(*                       spec.md 4.2                                       *)
(*   CacheLayer          get / put / invalidate with lazy expiry, after    *)
(*                       spec.md 3 and 4.4 (gmail-cache.ts is imported by  *)
(*                       the commands but is not among the sources)        *)
(*   AccessFacade        the commands that read through and invalidate the *)
(*                       cache (src/src/commands/profile.ts, auth-cmd.ts,  *)
(*                       mail-actions.ts)                                  *)
(*   CredentialStore     login, logout, getClients, authenticateAccount    *)
(*                       and migrateLegacyTokens (src/src/auth.ts), and    *)
(*                       authenticate of the single-account program        *)
(*                       (src/unnamed/part_001)                            *)
(*                                                                         *)
(* Each component has its own specification (SpecFetch, SpecTransport,     *)
(* SpecCache, SpecFacade, SpecCred ...); the commands that are followed    *)
(* step by step have theirs: the mutation commands (SpecMutation), reads   *)
(* in flight next to mutations (SpecRace), the profile command             *)
(* (SpecProfile), two calls authenticating one account (SpecRefresh) and   *)
(* the auth commands (SpecAuth).                                           *)
(*                                                                         *)
(* Time is counted in ticks; TicksPerUnit ticks make one time unit (the    *)
(* 1 s base delay of the transport). Cache entries and credentials carry   *)
(* the ticks left until their expiry.                                      *)
(***************************************************************************)
EXTENDS Integers, Sequences, FiniteSets, TLC

\* ------------------------------------------------------------------------
\* Bounds of the model
\* ------------------------------------------------------------------------
MaxJobs == 3
\* largest batch of the end-to-end scenario
ScenarioJobs == 5
\* largest concurrency limit tried besides the design default
MaxLimit == 2
\* ticks per time unit (resolution of the clock)
TicksPerUnit == 1
\* largest server-specified minimum wait (Retry-After), in ticks
MaxRetryAfter == 2
\* largest time-to-live given to a cache entry, in ticks
MaxTtl == 2
\* how often one remote entity is changed by mutation commands
MaxWrites == 2
\* lifetime of an access token, in ticks
TokenLife == 1

\* ------------------------------------------------------------------------
\* Program constants
\* ------------------------------------------------------------------------
\* const maxConcurrency = 10
maxConcurrency == 10
\* 429: up to 3 retries
MaxRetries429 == 3
\* 5xx: up to 1 retry
MaxRetries5xx == 1

\* circuit-breaker policy (configuration): consecutive failures that open the
\* circuit, and the cool-down in ticks
Threshold == 2
CoolDown == 2

None == "none"

Max(a, b) == IF a >= b THEN a ELSE b
Min(a, b) == IF a <= b THEN a ELSE b

\* ------------------------------------------------------------------------
\* Remote responses and their classification
\* ------------------------------------------------------------------------
\* HTTP status classes the remote service answers with
Statuses == {200, 429, 500, 404, 403}

IsRetryable_Only5xx(status) == status >= 500

IsRetryable(status) == status = 429 \/ status >= 500

RetryBudget_NoCap5xx(status) ==
    IF status = 429 \/ status >= 500 THEN MaxRetries429 ELSE 0

RetryBudget_NoCap429(status) ==
    IF status = 429 THEN MaxRetries429 + 2
    ELSE IF status >= 500 THEN MaxRetries5xx
    ELSE 0

\* retries granted per class: 429 up to 3, 5xx up to 1, anything else none
RetryBudget(status) ==
    IF status = 429 THEN MaxRetries429
    ELSE IF status >= 500 THEN MaxRetries5xx
    ELSE 0

\* the error type a failed call surfaces
ErrorOf(status) ==
    IF status = 429 THEN "RateLimitError"
    ELSE IF status >= 500 THEN "TransientServer"
    ELSE IF status = 403 THEN "PermissionDeniedError"
    ELSE "NotFoundError"

\* a 403 whose body reports the exhausted API quota is the quota error
ErrorOfResponse(resp) ==
    IF resp.status = 403 /\ resp.quota THEN "QuotaExceededError"
    ELSE ErrorOf(resp.status)

\* the errors that are surfaced without a retry
NonRetryableErrors ==
    {"NotFoundError", "PermissionDeniedError", "QuotaExceededError"}

\* retries already spent on the class of this status
Spent(n429, n5xx, status) == IF status = 429 THEN n429 ELSE n5xx

Decide_RetryAnyError(status, n429, n5xx) ==
    IF status < 400 THEN "ok"
    ELSE IF Spent(n429, n5xx, status) < (IF status = 429 THEN MaxRetries429 ELSE MaxRetries5xx)
         THEN "retry"
    ELSE "fail"

Decide_NoRetry(status, n429, n5xx) ==
    IF status < 400 THEN "ok" ELSE "fail"

\* what the retry loop does with a response: "ok", "retry", or "fail"
Decide(status, n429, n5xx) ==
    IF status < 400 THEN "ok"
    ELSE IF IsRetryable(status) /\ Spent(n429, n5xx, status) < RetryBudget(status)
         THEN "retry"
    ELSE "fail"

\* ------------------------------------------------------------------------
\* State
\* ------------------------------------------------------------------------
VARIABLES
    \* ConcurrentFetcher
    fpc,        \* "idle", "running", "returned", "abandoned"
    threads,    \* the batch: sequence of thread ids, job idx fetches threads[idx]
    limit,      \* capacity of the semaphore channel
    sem,        \* number of tokens held in the semaphore channel
    job,        \* per job idx: [pc, n429, n5xx, out], and the observer late:
                \* the job completed after its batch was abandoned
    finished,   \* job indexes in completion order
    results,    \* the indexed result array
    returned,   \* what fetchAll handed back (None until it returns)
    answer,     \* what the multi-item read hands to its caller
    served,     \* remote calls served so far, modulo FailEvery (scenario service)
    \* ResilientTransport
    cb,         \* CircuitState per circuit key: [status, failures, elapsed]
    call,       \* per call slot: the retry loop's state (see IdleCall)
    log,        \* outcomes of the latest resolved calls, oldest first (observer)
    sinceTrip,  \* ticks since the family's circuit last opened (observer)
    \* CacheLayer
    cache,      \* CacheEntry per key: [present, value, groups, left]
    stored,     \* per key: <<the latest put and the time since>> (observer)
    lastOp,     \* the latest operation on the cache and its answer (observer)
    \* AccessFacade: the commands
    dirty,      \* thread-list keys that were cached when their account changed labels
                \* and have not been read since (observer)
    lastCmd,    \* the latest command and what it read (observer); of a mutation
                \* command also where it stands: "calling", "done", "failed",
                \* "cancelled"
    remote,     \* per key: how often the remote entity was changed by a mutation
    reads,      \* per reader: the read command it is running (see IdleRead)
    \* CredentialStore
    accounts,   \* the accounts table: per email <<tokens>>, or <<>> without a row
    tokensFile, \* ~/.gtui/tokens.json: <<[email, tokens]>>, or <<>> when absent
    cmd,        \* the running command: [st, sel, err, single, filter] (see IdleCmd)
    proc,       \* per email: the authenticateAccount call of the running command
    gone,       \* the accounts auth logout removed and no login brought back (observer)
    lastLogout  \* the latest auth logout command and its outcome (observer)

fetchVars == <<fpc, threads, limit, sem, job, finished, results, returned, answer>>
transVars == <<cb, call, log, sinceTrip>>
cacheVars == <<cache, stored, lastOp, dirty, lastCmd>>
credVars == <<accounts, tokensFile, cmd, proc>>
raceVars == <<remote, reads>>
authObs == <<gone, lastLogout>>
vars == <<fetchVars, served, transVars, cacheVars, raceVars, credVars, authObs>>

\* the ids a list response of n threads names: distinct, and not the job index
ThreadIdOf(i, n) == n + 1 - i
Batches == {[i \in 1..n |-> ThreadIdOf(i, n)] : n \in 0..MaxJobs}
Limits == (1..MaxLimit) \cup {maxConcurrency}
Empty == [kind |-> "empty", id |-> 0]

\* the value a job produces: the fetched thread, or the error of its call
Outcome(id, decision, status) ==
    IF decision = "ok" THEN [kind |-> "thread", id |-> id]
    ELSE [kind |-> ErrorOf(status), id |-> id]

\* the multi-item read has not answered
NoAnswer == [kind |-> "none", values |-> <<>>, error |-> Empty]

InFlight == {i \in DOMAIN job : job[i].pc \in {"running", "backoff"}}

FetchIdle ==
    /\ fpc = "idle"
    /\ threads = <<>>
    /\ limit = maxConcurrency
    /\ sem = 0
    /\ job = <<>>
    /\ finished = <<>>
    /\ results = <<>>
    /\ returned = None
    /\ answer = NoAnswer
    /\ served = 0

\* fetchAll(jobs, concurrencyLimit): one goroutine per job is spawned, each
\* blocked on the semaphore; the result array is allocated with one slot per job
FetchAll(ts, L) ==
    /\ fpc = "idle"
    /\ fpc' = "running"
    /\ threads' = ts
    /\ limit' = L
    /\ sem' = 0
    /\ job' = [i \in 1..Len(ts) |->
                  [pc |-> "spawned", n429 |-> 0, n5xx |-> 0, out |-> Empty, late |-> FALSE]]
    /\ finished' = <<>>
    /\ results' = [i \in 1..Len(ts) |-> Empty]
    /\ UNCHANGED <<returned, answer>>

CanAcquire_Unbounded(held, cap) == TRUE

\* sem <- struct{}{} blocks while the channel buffer is full
CanAcquire(held, cap) == held < cap

MayStart_Abandoned(state) == state \in {"running", "abandoned"}

\* may a waiting job still start: not once the caller abandoned the batch
MayStart(state) == state = "running"

\* may a started job go on: an abandoned batch lets its jobs in flight finish
MayFinish(state) == state \in {"running", "abandoned"}

\* acquire: the job takes a slot and issues its call
Acquire(i) ==
    /\ MayStart(fpc)
    /\ i \in DOMAIN job
    /\ job[i].pc = "spawned"
    /\ CanAcquire(sem, limit)
    /\ sem' = sem + 1
    /\ job' = [job EXCEPT ![i].pc = "running"]
    /\ UNCHANGED <<fpc, threads, limit, finished, results, returned, answer>>

ResultSlot_CompletionOrder(idx, done) == done + 1

\* results are collected in an array indexed by the job's position
ResultSlot(idx, done) == idx

\* the job's call is answered; the transport retries inside the job, which
\* keeps its slot during the backoff; otherwise the job writes its result
\* and releases the slot (defer func() { <-sem }())
JobRespond(i, status) ==
    /\ MayFinish(fpc)
    /\ i \in DOMAIN job
    /\ job[i].pc = "running"
    /\ LET d == Decide(status, job[i].n429, job[i].n5xx)
           out == Outcome(threads[i], d, status)
       IN IF d = "retry"
          THEN /\ job' = [job EXCEPT ![i].pc = "backoff",
                                     ![i].n429 = @ + (IF status = 429 THEN 1 ELSE 0),
                                     ![i].n5xx = @ + (IF status = 429 THEN 0 ELSE 1)]
               /\ UNCHANGED <<sem, finished, results>>
          ELSE /\ job' = [job EXCEPT ![i] = [pc |-> "done", n429 |-> 0, n5xx |-> 0, out |-> out,
                                             late |-> fpc = "abandoned"]]
               /\ results' = [results EXCEPT ![ResultSlot(i, Len(finished))] = out]
               /\ finished' = Append(finished, i)
               /\ sem' = sem - 1
    /\ UNCHANGED <<fpc, threads, limit, returned, answer>>

\* the backoff delay of a retrying job elapses
JobWake(i) ==
    /\ MayFinish(fpc)
    /\ i \in DOMAIN job
    /\ job[i].pc = "backoff"
    /\ job' = [job EXCEPT ![i].pc = "running"]
    /\ UNCHANGED <<fpc, threads, limit, sem, finished, results, returned, answer>>

\* is this result the error of a failed job
IsError(r) == r.kind \notin {"thread", "empty"}

\* the positions of the failed jobs
Failures(rs) == {i \in DOMAIN rs : IsError(rs[i])}

answerOf_Partial(rs) ==
    [kind |-> "ok", values |-> SelectSeq(rs, LAMBDA r : ~IsError(r)), error |-> Empty]

\* the multi-item read examines the results of the batch in order: the first
\* failure met is its error and the successes are dropped; without a failure
\* the results are its answer
answerOf(rs) ==
    IF Failures(rs) = {}
    THEN [kind |-> "ok", values |-> rs, error |-> Empty]
    ELSE [kind |-> "error", values |-> <<>>,
          error |-> rs[CHOOSE i \in Failures(rs) : \A j \in Failures(rs) : i <= j]]

AllDone_FirstFailure(jobs) ==
    \/ \A i \in DOMAIN jobs : jobs[i].pc = "done"
    \/ \E i \in DOMAIN jobs : jobs[i].pc = "done" /\ IsError(jobs[i].out)

\* the batch is over when every job has written its result
AllDone(jobs) == \A i \in DOMAIN jobs : jobs[i].pc = "done"

\* all jobs are done: the indexed array is handed back, and the read answers
FetchReturn ==
    /\ fpc = "running"
    /\ AllDone(job)
    /\ fpc' = "returned"
    /\ returned' = results
    /\ answer' = answerOf(results)
    /\ UNCHANGED <<threads, limit, sem, job, finished, results>>

\* the caller abandons the running batch (the process is interrupted)
Abandon ==
    /\ fpc = "running"
    /\ fpc' = "abandoned"
    /\ UNCHANGED <<threads, limit, sem, job, finished, results, returned, answer>>

\* ------------------------------------------------------------------------
\* ResilientTransport: circuit breaker
\* ------------------------------------------------------------------------
Family == "gmail"
Accounts == {"a@x.com", "b@x.com"}
\* each account's command issues its calls one after the other; the accounts
\* run concurrently
Calls == Accounts
\* the account a call acts for
AccountOf(c) == c

CircuitKeys == {Family} \cup Accounts

CircuitKey_PerAccount(family, account) == account

\* the circuit a call consults: one per endpoint family, shared by all accounts
CircuitKey(family, account) == family

ClosedCircuit == [status |-> "closed", failures |-> 0, elapsed |-> 0]

Admission_IgnoreCoolDown(c) ==
    IF c.status = "closed" THEN "pass"
    ELSE IF c.status = "open" THEN "probe"
    ELSE "reject"

Admission_HalfOpenPass(c) ==
    IF c.status \in {"closed", "halfOpen"} THEN "pass"
    ELSE IF c.status = "open" /\ c.elapsed >= CoolDown THEN "probe"
    ELSE "reject"

\* what the breaker does with a call that starts: let it pass, let it through
\* as the half-open probe, or reject it without a remote call
Admission(c) ==
    IF c.status = "closed" THEN "pass"
    ELSE IF c.status = "open" /\ c.elapsed >= CoolDown THEN "probe"
    ELSE "reject"

RecordSuccess_KeepCount(c, isProbe) ==
    IF isProbe THEN ClosedCircuit ELSE c

\* a call of the family succeeded: the counter is reset; a probe's success
\* closes the circuit
RecordSuccess(c, isProbe) ==
    IF isProbe THEN ClosedCircuit
    ELSE [c EXCEPT !.failures = 0]

RecordFailure_KeepTimer(c, isProbe) ==
    IF c.status = "closed"
    THEN IF c.failures + 1 >= Threshold
         THEN [status |-> "open", failures |-> c.failures + 1, elapsed |-> 0]
         ELSE [c EXCEPT !.failures = @ + 1]
    ELSE IF isProbe
    THEN [c EXCEPT !.status = "open"]
    ELSE c

\* a call of the family failed: the counter grows and opens the circuit at the
\* threshold; a probe's failure reopens it and restarts the cool-down
RecordFailure(c, isProbe) ==
    IF c.status = "closed"
    THEN IF c.failures + 1 >= Threshold
         THEN [status |-> "open", failures |-> c.failures + 1, elapsed |-> 0]
         ELSE [c EXCEPT !.failures = @ + 1]
    ELSE IF isProbe
    THEN [c EXCEPT !.status = "open", !.elapsed = 0]
    ELSE c

\* ------------------------------------------------------------------------
\* ResilientTransport: backoff
\* ------------------------------------------------------------------------
\* 1 s base delay
BaseDelay == TicksPerUnit

RECURSIVE Pow2(_)
Pow2(n) == IF n = 0 THEN 1 ELSE 2 * Pow2(n - 1)

backoffBase_Linear(attempt) == BaseDelay * (attempt + 1)

\* const base = 1000 * Math.pow(2, attempt)
backoffBase(attempt) == BaseDelay * Pow2(attempt)

Jitters_Full(base) == {j \in 0..base : j <= base}

\* const jitter = Math.random() * base / 2, with Math.random() in [0, 1)
Jitters(base) == {j \in 0..base : 2 * j < base}

\* return base + jitter
backoff(attempt) == {backoffBase(attempt) + j : j \in Jitters(backoffBase(attempt))}

\* server-specified minimum waits a 429 response may carry
\* (<<>> when the response carries none, <<ticks>> otherwise)
RetryAfters == {<<>>, <<0>>, <<MaxRetryAfter>>}

\* responses of the remote service
Responses ==
    {[status |-> s, retryAfter |-> <<>>, quota |-> FALSE] : s \in Statuses}
        \cup {[status |-> 429, retryAfter |-> r, quota |-> FALSE] : r \in RetryAfters}
        \cup {[status |-> 403, retryAfter |-> <<>>, quota |-> TRUE]}

\* the delays the transport may wait before retrying after this response;
\* attempt counts the retries already made for the class. A Retry-After is
\* respected: it replaces the computed delay, or raises it to the minimum
Delays(resp, attempt) ==
    IF resp.status = 429
    THEN IF resp.retryAfter = <<>>
         THEN backoff(attempt)
         ELSE {resp.retryAfter[1]} \cup {Max(d, resp.retryAfter[1]) : d \in backoff(attempt)}
    ELSE {BaseDelay}

\* ------------------------------------------------------------------------
\* ResilientTransport: execute(call)
\* ------------------------------------------------------------------------
IdleCall ==
    [pc |-> "idle",        \* "idle", "attempting", "backoff", "done"
     n429 |-> 0,           \* retries made after a 429
     n5xx |-> 0,           \* retries made after a 5xx
     sleep |-> 0,          \* ticks of backoff left
     probe |-> FALSE,      \* let through as the half-open probe
     result |-> None,
     \* observers
     attempts |-> 0,       \* remote attempts made
     got429 |-> 0,         \* attempts answered 429
     got5xx |-> 0,         \* attempts answered 5xx
     resp |-> <<>>,        \* <<the latest response>>, until time passes
     gate |-> None]        \* the circuit's situation when the call started

WindowLen == Threshold + 1

Logged(l, outcome) ==
    LET l2 == Append(l, outcome)
    IN IF Len(l2) > WindowLen THEN Tail(l2) ELSE l2

RECURSIVE Streak(_)
\* number of failed calls at the end of the log
Streak(l) ==
    IF l = <<>> \/ l[Len(l)] # "fail" THEN 0
    ELSE 1 + Streak(SubSeq(l, 1, Len(l) - 1))

\* the family circuit's situation, timed independently of the breaker
Gate ==
    IF cb[Family].status = "closed" THEN "closed"
    ELSE IF cb[Family].status = "halfOpen" THEN "halfOpen"
    ELSE IF sinceTrip < CoolDown THEN "cooling"
    ELSE "elapsed"

Tripped(old, new) ==
    IF new[Family].status = "open" /\ old[Family].status # "open" THEN 0 ELSE sinceTrip

TransportIdle ==
    /\ cb = [k \in CircuitKeys |-> ClosedCircuit]
    /\ call = [c \in Calls |-> IdleCall]
    /\ log = <<>>
    /\ sinceTrip = 0

\* execute(call) starts: the breaker is consulted before any remote call
Start(c) ==
    /\ call[c].pc = "idle"
    /\ LET k == CircuitKey(Family, AccountOf(c))
           a == Admission(cb[k])
       IN /\ call' = [call EXCEPT ![c] =
                IF a = "reject"
                THEN [IdleCall EXCEPT !.pc = "done", !.result = "CircuitBreakerError",
                                      !.gate = Gate]
                ELSE [IdleCall EXCEPT !.pc = "attempting", !.probe = (a = "probe"),
                                      !.gate = Gate]]
          /\ cb' = IF a = "probe" THEN [cb EXCEPT ![k].status = "halfOpen"] ELSE cb
    /\ UNCHANGED <<log, sinceTrip>>

\* the remote service answers an attempt: success, retry after a backoff, or
\* failure; the final outcome is recorded in the circuit
Respond(c, resp) ==
    /\ call[c].pc = "attempting"
    /\ LET k == CircuitKey(Family, AccountOf(c))
           me == call[c]
           d == Decide(resp.status, me.n429, me.n5xx)
           seen == [me EXCEPT !.attempts = @ + 1, !.resp = <<resp>>,
                              !.got429 = @ + (IF resp.status = 429 THEN 1 ELSE 0),
                              !.got5xx = @ + (IF resp.status >= 500 THEN 1 ELSE 0)]
       IN CASE d = "retry" ->
                 /\ \E w \in Delays(resp, Spent(me.n429, me.n5xx, resp.status)) :
                       call' = [call EXCEPT ![c] =
                          [seen EXCEPT !.pc = "backoff", !.sleep = w,
                                       !.n429 = @ + (IF resp.status = 429 THEN 1 ELSE 0),
                                       !.n5xx = @ + (IF resp.status = 429 THEN 0 ELSE 1)]]
                 /\ UNCHANGED <<cb, log, sinceTrip>>
            [] d = "ok" ->
                 /\ call' = [call EXCEPT ![c] = [seen EXCEPT !.pc = "done", !.result = "ok"]]
                 /\ cb' = [cb EXCEPT ![k] = RecordSuccess(@, me.probe)]
                 /\ log' = Logged(log, "ok")
                 /\ sinceTrip' = Tripped(cb, cb')
            [] OTHER ->
                 /\ call' = [call EXCEPT ![c] =
                        [seen EXCEPT !.pc = "done", !.result = ErrorOfResponse(resp)]]
                 /\ cb' = [cb EXCEPT ![k] = RecordFailure(@, me.probe)]
                 /\ log' = Logged(log, "fail")
                 /\ sinceTrip' = Tripped(cb, cb')

\* the backoff delay has been waited: the next attempt is made
Wake(c) ==
    /\ call[c].pc = "backoff"
    /\ call[c].sleep = 0
    /\ call' = [call EXCEPT ![c].pc = "attempting", ![c].resp = <<>>]
    /\ UNCHANGED <<cb, log, sinceTrip>>

\* execute returns to its caller; the slot serves the next call
Return(c) ==
    /\ call[c].pc = "done"
    /\ call' = [call EXCEPT ![c] = IdleCall]
    /\ UNCHANGED <<cb, log, sinceTrip>>

\* one tick of time passes for every timer
Tick ==
    /\ cb' = [k \in CircuitKeys |->
                IF cb[k].status = "open"
                THEN [cb[k] EXCEPT !.elapsed = Min(@ + 1, CoolDown)]
                ELSE cb[k]]
    /\ call' = [c \in Calls |->
                IF call[c].pc = "backoff" /\ call[c].sleep > 0
                THEN [call[c] EXCEPT !.sleep = @ - 1, !.resp = <<>>]
                ELSE call[c]]
    /\ sinceTrip' = IF cb[Family].status = "open" THEN Min(sinceTrip + 1, CoolDown)
                    ELSE sinceTrip
    /\ UNCHANGED log

\* ------------------------------------------------------------------------
\* CredentialStore: credentials and their refresh
\* ------------------------------------------------------------------------
\* a caller that names no account
NoAccount == ""

\* Credentials: access token, <<refresh token>> and <<ticks until expiry>>,
\* each of the two <<>> when the field is absent
Cred(access, refresh, expiry) == [access |-> access, refresh |-> refresh, expiry |-> expiry]

\* oauth2Client.getToken(code): the tokens of a fresh login
FreshCred == Cred("a0", <<"r0">>, <<TokenLife>>)

\* the credentials a successful refreshAccessToken() answers with: a new
\* access token and expiry, and the refresh token omitted or rotated
RefreshResponses == {Cred("a1", r, <<TokenLife>>) : r \in {<<>>, <<"r1">>}}

\* the ways refreshAccessToken() fails
RefreshFailures == {"auth", "network"}

NeedsRefresh_Never(tokens) == FALSE

\* tokens.expiry_date && tokens.expiry_date < Date.now()
NeedsRefresh(tokens) == tokens.expiry # <<>> /\ tokens.expiry[1] = 0

merge_Replace(tokens, credentials) == credentials

\* { ...tokens, ...credentials }
merge(tokens, credentials) ==
    Cred(credentials.access,
         IF credentials.refresh = <<>> THEN tokens.refresh ELSE credentials.refresh,
         IF credentials.expiry = <<>> THEN tokens.expiry ELSE credentials.expiry)

\* one tick later
AgedCred(tokens) ==
    IF tokens.expiry # <<>> /\ tokens.expiry[1] > 0
    THEN [tokens EXCEPT !.expiry = <<@[1] - 1>>]
    ELSE tokens

AgedBox(box) == IF box = <<>> THEN <<>> ELSE <<AgedCred(box[1])>>

\* the account whose tokens the tokens file holds
Session == IF tokensFile = <<>> THEN NoAccount ELSE tokensFile[1].email

\* authenticate(): the tokens file after it. Stored tokens are used, and
\* refreshed when expired (saveTokens(credentials)); without any the browser
\* flow logs account e in and saves its tokens
authenticate(file, e, credentials) ==
    IF file = <<>> THEN <<[email |-> e, tokens |-> FreshCred]>>
    ELSE IF NeedsRefresh(file[1].tokens) THEN <<[email |-> file[1].email, tokens |-> credentials]>>
    ELSE file

\* ------------------------------------------------------------------------
\* CacheLayer: get, put, invalidate, invalidateKey
\* ------------------------------------------------------------------------
\* the key of a cached object: account, entity kind, entity parameters
KeyOf(account, kind, param) == [account |-> account, kind |-> kind, param |-> param]

ThreadIds == {"t1"}
ThreadGroup(id) == "thread:" \o id
Groups == {"thread-lists", "label-counts", "labels"} \cup {ThreadGroup(id) : id \in ThreadIds}

NoEntry == [present |-> FALSE, value |-> "", groups |-> {}, left |-> 0]
\* an entry created now: expiry = creation time + ttl
Entry(v, g, ttl) == [present |-> TRUE, value |-> v, groups |-> g, left |-> ttl]

\* the entry is there and its expiry has not come
Live(e) == e.present /\ e.left > 0

\* get(key) -> <<value>>, or <<>> for a miss; expiry is checked at read time
get_IgnoreExpiry(c, k) == IF c[k].present THEN <<c[k].value>> ELSE <<>>

get(c, k) == IF Live(c[k]) THEN <<c[k].value>> ELSE <<>>

\* an expired entry is destroyed by the read that finds it
expire(c, k) == IF Live(c[k]) THEN c ELSE [c EXCEPT ![k] = NoEntry]

put_Merge(c, k, v, g, ttl) ==
    [c EXCEPT ![k] = IF c[k].present
                     THEN Entry(v, g \cup c[k].groups, Max(ttl, c[k].left))
                     ELSE Entry(v, g, ttl)]

\* put(key, value, groups, ttl): a write always overwrites
put(c, k, v, g, ttl) == [c EXCEPT ![k] = Entry(v, g, ttl)]

invalidate_Flush(c, G) == [k \in DOMAIN c |-> NoEntry]

\* invalidate(groupName): the entries of the group are dropped
invalidate(c, G) ==
    [k \in DOMAIN c |-> IF c[k].present /\ G \in c[k].groups THEN NoEntry ELSE c[k]]

invalidateKey(c, k) == [c EXCEPT ![k] = NoEntry]

\* one tick later
aged(c) ==
    [k \in DOMAIN c |-> IF Live(c[k]) THEN [c[k] EXCEPT !.left = @ - 1] ELSE c[k]]

\* observers
NoPut == <<>>
NoKey == KeyOf(NoAccount, "", "")
Op(op, k, g, res) == [op |-> op, key |-> k, groups |-> g, res |-> res]

\* the latest put of a key: its value and ttl, the ticks since (up to ttl),
\* whether the key has been invalidated since, and whether that put replaced
\* a live entry of another value and other groups
PutOf(c, k, v, g, ttl) ==
    <<[value |-> v, ttl |-> ttl, age |-> 0, dropped |-> FALSE,
       over |-> (Live(c[k]) /\ c[k].value # v /\ c[k].groups # g /\ c[k].left # ttl)]>>

Dropped(st, keys) ==
    [k \in DOMAIN st |->
        IF k \in keys /\ st[k] # NoPut THEN <<[st[k][1] EXCEPT !.dropped = TRUE]>> ELSE st[k]]

\* the keys an invalidation removes
Members(c, G) == {k \in DOMAIN c : c[k].present /\ G \in c[k].groups}

\* the keys the layer is exercised with, the payloads and the group lists
LayerKeys == {KeyOf("a@x.com", "thread-list", "in:inbox"), KeyOf("a@x.com", "thread", "t1")}
Payloads == {"v1", "v2"}
GroupSets == {{"labels"}, {"thread-lists", "label-counts"}}
\* the shortest and the longest time-to-live
Ttls == {1, MaxTtl}

\* a command's record: who it acted for, the values it read from the cache
\* as <<account, value>>, the accounts it fetched remotely for, whether it
\* succeeded, and whether the key it read was dirty
Cmd(op, emails, hits, fetched, ok, wasDirty) ==
    [op |-> op, st |-> "done", accounts |-> emails, hits |-> hits, fetched |-> fetched,
     ok |-> ok, wasDirty |-> wasDirty]

NoCmd == Cmd("none", {}, {}, {}, TRUE, FALSE)

\* no read command is running and the remote entities are as first fetched
ReadsIdle ==
    /\ remote = <<>>
    /\ reads = <<>>

CacheIdle ==
    /\ ReadsIdle
    /\ cache = [k \in LayerKeys |-> NoEntry]
    /\ stored = [k \in LayerKeys |-> NoPut]
    /\ lastOp = Op("none", NoKey, {}, <<>>)
    /\ dirty = {}
    /\ lastCmd = NoCmd

facadeObs == <<tokensFile, dirty, lastCmd>>

Put(k, v, g, ttl) ==
    /\ cache' = put(cache, k, v, g, ttl)
    /\ stored' = [stored EXCEPT ![k] = PutOf(cache, k, v, g, ttl)]
    /\ lastOp' = Op("put", k, g, <<>>)
    /\ UNCHANGED facadeObs

Get(k) ==
    /\ cache' = expire(cache, k)
    /\ lastOp' = Op("get", k, {}, get(cache, k))
    /\ UNCHANGED <<stored, facadeObs>>

Invalidate(G) ==
    /\ cache' = invalidate(cache, G)
    /\ stored' = Dropped(stored, Members(cache, G))
    /\ lastOp' = Op("invalidate", NoKey, {G}, <<>>)
    /\ UNCHANGED facadeObs

InvalidateKey(k) ==
    /\ cache' = invalidateKey(cache, k)
    /\ stored' = Dropped(stored, {k})
    /\ lastOp' = Op("invalidateKey", k, {}, <<>>)
    /\ UNCHANGED facadeObs

\* one tick of time passes for every entry
CacheTick ==
    /\ cache' = aged(cache)
    /\ stored' = [k \in DOMAIN stored |->
                    IF stored[k] = NoPut THEN NoPut
                    ELSE <<[stored[k][1] EXCEPT !.age = Min(@ + 1, stored[k][1].ttl)]>>]
    /\ lastOp' = Op("tick", NoKey, {}, <<>>)
    /\ UNCHANGED facadeObs

\* ------------------------------------------------------------------------
\* AccessFacade: the commands that read through and invalidate the cache
\* ------------------------------------------------------------------------
\* time-to-live and default groups of an entity kind
Ttl(kind) == MaxTtl
DefaultGroups(kind) ==
    IF kind = "thread-list" THEN {"thread-lists"}
    ELSE IF kind = "labels" THEN {"labels"}
    ELSE {kind}

\* what the remote service holds for an account: the account's own data
RemoteValue(account) == account

\* cache.getCachedLabels() / cache.cacheLabels(labels): no account is given
LabelsKey == KeyOf(NoAccount, "labels", "")
\* cache.getCachedProfile(account) / cache.cacheProfile(account, profile)
ProfileKey(account) == KeyOf(account, "profile", "")
\* list-threads read for (account, query)
ThreadListKey(account, query) == KeyOf(account, "thread-list", query)

Query == "in:inbox"
ListKeys == {ThreadListKey("a@x.com", Query)}
FacadeKeys == {LabelsKey} \cup {ProfileKey(e) : e \in Accounts} \cup ListKeys

FacadeIdle ==
    /\ ReadsIdle
    /\ cache = [k \in FacadeKeys |-> NoEntry]
    /\ stored = <<>>
    /\ lastOp = Op("none", NoKey, {}, <<>>)
    /\ dirty = {}
    /\ lastCmd = NoCmd

\* authenticate() gives a client of account e
Authenticated(e) == Session \in {NoAccount, e}

\* the read-through of one key for one account: the cache after it
ReadThrough(c, k, e, noCache, fetchOk) ==
    IF noCache THEN c
    ELSE IF get(c, k) # <<>> THEN c
    ELSE IF fetchOk THEN put(expire(c, k), k, RemoteValue(e), DefaultGroups(k.kind), Ttl(k.kind))
    ELSE expire(c, k)

\* the value the read-through took from the cache, as {<<account, value>>}
HitOf(c, k, e, noCache) ==
    IF ~noCache /\ get(c, k) # <<>> THEN {<<e, get(c, k)[1]>>} ELSE {}

\* label list [--no-cache]
LabelList(e, noCache, fetchOk) ==
    /\ Authenticated(e)
    /\ tokensFile' = authenticate(tokensFile, e, FreshCred)
    /\ cache' = ReadThrough(cache, LabelsKey, e, noCache, fetchOk)
    /\ lastCmd' = LET hits == HitOf(cache, LabelsKey, e, noCache)
                  IN Cmd("labelList", {e}, hits, IF hits = {} THEN {e} ELSE {},
                         hits # {} \/ fetchOk, FALSE)
    /\ UNCHANGED <<stored, lastOp, dirty>>

\* profile [--account ...] [--no-cache]: every selected account on its own;
\* failed is the set of accounts whose remote fetch fails
Profile(selected, noCache, failed) ==
    /\ selected # {}
    /\ failed \subseteq selected
    /\ cache' = [k \in DOMAIN cache |->
                   IF k.kind = "profile" /\ k.account \in selected
                   THEN ReadThrough(cache, k, k.account, noCache, k.account \notin failed)[k]
                   ELSE cache[k]]
    /\ lastCmd' = LET hits == UNION {HitOf(cache, ProfileKey(e), e, noCache) : e \in selected}
                  IN Cmd("profile", selected, hits,
                         {e \in selected : HitOf(cache, ProfileKey(e), e, noCache) = {}},
                         failed = {}, FALSE)
    /\ UNCHANGED <<stored, lastOp, tokensFile, dirty>>

\* list threads of (account, query) [--no-cache]
ListThreads(k, noCache, fetchOk) ==
    /\ cache' = ReadThrough(cache, k, k.account, noCache, fetchOk)
    /\ lastCmd' = LET hits == HitOf(cache, k, k.account, noCache)
                  IN Cmd("listThreads", {k.account}, hits, IF hits = {} THEN {k.account} ELSE {},
                         hits # {} \/ fetchOk, k \in dirty)
    /\ dirty' = IF noCache THEN dirty ELSE dirty \ {k}
    /\ UNCHANGED <<stored, lastOp, tokensFile>>

RECURSIVE invalidateThreads(_, _)
\* cache.invalidateThreads(threadIds)
invalidateThreads(c, ids) ==
    IF ids = {} THEN c
    ELSE LET id == CHOOSE x \in ids : TRUE
         IN invalidateThreads(invalidate(c, ThreadGroup(id)), ids \ {id})

invalidateThreadLists_Keep(c) == c

\* cache.invalidateThreadLists()
invalidateThreadLists(c) == invalidate(c, "thread-lists")
\* cache.invalidateLabelCounts()
invalidateLabelCounts(c) == invalidate(c, "label-counts")

\* the groups a label change declares
BulkGroups(ids) == {ThreadGroup(id) : id \in ids} \cup {"thread-lists", "label-counts"}

\* bulkAction: star, archive, trash, label ... of the given threads; when
\* the remote change fails nothing is invalidated
bulkAction(e, ids, changeOk) ==
    /\ ids # {}
    /\ Authenticated(e)
    /\ tokensFile' = authenticate(tokensFile, e, FreshCred)
    /\ cache' = IF changeOk
                THEN invalidateLabelCounts(invalidateThreadLists(invalidateThreads(cache, ids)))
                ELSE cache
    /\ stored' = IF changeOk
                 THEN Dropped(stored, UNION {Members(cache, G) : G \in BulkGroups(ids)})
                 ELSE stored
    /\ lastOp' = IF changeOk THEN Op("bulkAction", NoKey, BulkGroups(ids), <<>>) ELSE lastOp
    /\ dirty' = IF changeOk
                THEN dirty \cup {k \in DOMAIN cache :
                                    k.kind = "thread-list" /\ k.account = e /\ Live(cache[k])}
                ELSE dirty
    /\ lastCmd' = Cmd("bulkAction", {e}, {}, {}, changeOk, FALSE)

\* auth logout: the stored tokens are removed
AuthLogout ==
    /\ tokensFile # <<>>
    /\ tokensFile' = <<>>
    /\ lastCmd' = Cmd("logout", {Session}, {}, {}, TRUE, FALSE)
    /\ UNCHANGED <<cache, stored, lastOp, dirty>>

\* one tick of time passes for every entry
FacadeTick ==
    /\ cache' = aged(cache)
    /\ lastCmd' = Cmd("tick", {}, {}, {}, TRUE, FALSE)
    /\ UNCHANGED <<stored, lastOp, tokensFile, dirty>>

\* ------------------------------------------------------------------------
\* AccessFacade: the mutation commands, step by step
\* ------------------------------------------------------------------------
\* bulkAction (star, archive, trash, label ...), mail trash-spam, draft send,
\* draft delete, label create, label delete
MutationOps ==
    {"bulkAction", "trashSpam", "draftSend", "draftDelete", "labelCreate", "labelDelete"}
\* the commands that change the state of threads
ThreadOps == {"bulkAction", "trashSpam"}
\* the commands with a --force option
DeleteOps == {"draftDelete", "labelDelete"}

\* the threads the mutation commands are given
TargetIds == {"t1", "t2"}
ThreadKey(id) == KeyOf(NoAccount, "thread", id)
\* cache.getCachedLabelCounts() / cache.cacheLabelCounts(counts)
LabelCountsKey == KeyOf(NoAccount, "label-counts", "")
MutationKeys ==
    {ThreadKey(id) : id \in TargetIds}
       \cup {ThreadListKey("a@x.com", Query), LabelsKey, LabelCountsKey, ProfileKey("a@x.com")}

\* the groups an entry is stored under
GroupsOfKey(k) ==
    IF k.kind = "thread" THEN {ThreadGroup(k.param)} ELSE DefaultGroups(k.kind)

\* what the user types at the prompt
Answers == {"y", "Y", "n", ""}
\* answer.toLowerCase()
toLowerCase(a) == IF a = "Y" THEN "y" ELSE a

\* is the prompt shown: if (!options.force && process.stdin.isTTY)
Asks(force, isTTY) == ~force /\ isTTY

\* does the delete command go on to the remote call
Proceeds(force, isTTY, typed) ==
    ~Asks(force, isTTY) \/ toLowerCase(typed) = "y"

MutationIdle ==
    /\ ReadsIdle
    /\ cache = [k \in MutationKeys |-> NoEntry]
    /\ stored = <<>>
    /\ lastOp = Op("none", NoKey, {}, <<>>)
    /\ dirty = {}
    /\ lastCmd = NoCmd

\* no mutation command is waiting for its remote call
Quiet == lastCmd.st # "calling"

\* a read command fetches the entity of key k and caches it
Fill(k) ==
    /\ Quiet
    /\ cache' = put(cache, k, RemoteValue(k.account), GroupsOfKey(k), Ttl(k.kind))
    /\ lastCmd' = Cmd("read", {k.account}, {}, {k.account}, TRUE, FALSE)
    /\ UNCHANGED <<stored, lastOp, dirty, tokensFile>>

\* cache.invalidateLabels()
invalidateLabels(c) == invalidate(c, "labels")

invalidated_ListsOnly(c, op, ids) == invalidateThreadLists(c)

\* the invalidations a command runs after its remote call
invalidated(c, op, ids) ==
    IF op = "bulkAction"
    THEN invalidateLabelCounts(invalidateThreadLists(invalidateThreads(c, ids)))
    ELSE IF op = "trashSpam" THEN invalidateLabelCounts(invalidateThreadLists(c))
    ELSE IF op = "draftSend" THEN invalidateThreadLists(c)
    ELSE IF op = "labelCreate" THEN invalidateLabels(c)
    ELSE IF op = "labelDelete" THEN invalidateLabelCounts(invalidateLabels(c))
    ELSE c

afterMutation_Always(c, op, ids, ok) == invalidated(c, op, ids)

\* the cache after the remote call of a command: a rejected call throws
\* before the invalidations
afterMutation(c, op, ids, ok) == IF ok THEN invalidated(c, op, ids) ELSE c

\* the record of a mutation command
Mutation(op, ids, force, asked, typed, st) ==
    [op |-> op, st |-> st, ids |-> ids, force |-> force, asked |-> asked,
     answer |-> typed,
     called |-> st = "calling",   \* the remote call was issued
     removed |-> {},              \* the live entries its invalidations removed
     changed |-> {}]              \* the threads its remote call changed

\* a mutation command up to its remote call: a delete command asks first
\* and returns when the answer is not y; then authenticate(), then the call
MutationCall(op, ids, force, isTTY, typed) ==
    /\ Quiet
    /\ op = "bulkAction" <=> ids # {}
    /\ op \in DeleteOps \/ (~force /\ ~isTTY /\ typed = "")
    /\ Asks(force, isTTY) \/ typed = ""
    /\ LET go == op \notin DeleteOps \/ Proceeds(force, isTTY, typed)
       IN /\ lastCmd' = Mutation(op, ids, force, op \in DeleteOps /\ Asks(force, isTTY), typed,
                                  IF go THEN "calling" ELSE "cancelled")
          /\ tokensFile' = IF go THEN authenticate(tokensFile, "a@x.com", FreshCred)
                           ELSE tokensFile
    /\ UNCHANGED <<cache, stored, lastOp, dirty>>

\* the threads a remote call can have changed: the given ones, or for
\* trashAllSpam() whatever threads the server found in spam
Changeable(op, ids) ==
    IF op = "bulkAction" THEN {ids}
    ELSE IF op = "trashSpam" THEN SUBSET TargetIds
    ELSE {{}}

\* the remote call of the command returns or throws; after a return the
\* command runs its invalidations. spam is the set of threads the call changed
MutationReturn(ok, spam) ==
    /\ lastCmd.st = "calling"
    /\ spam \in (IF ok THEN Changeable(lastCmd.op, lastCmd.ids) ELSE {{}})
    /\ cache' = afterMutation(cache, lastCmd.op, lastCmd.ids, ok)
    /\ lastCmd' = [lastCmd EXCEPT
                      !.st = IF ok THEN "done" ELSE "failed",
                      !.removed = {k \in DOMAIN cache : Live(cache[k]) /\ ~Live(cache'[k])},
                      !.changed = spam]
    /\ UNCHANGED <<stored, lastOp, dirty, tokensFile>>

\* ------------------------------------------------------------------------
\* AccessFacade: read commands and mutation commands in flight together
\* ------------------------------------------------------------------------
\* the read commands that run at the same time, each in its own process on
\* the shared cache store
Readers == {"r1", "r2"}

\* the cached entity of the reads: the labels (label list)
RaceKeys == {LabelsKey}

\* what the remote service answers for an entity that was changed n times
RemoteVersion(n) == "v" \o ToString(n)

\* the entities a successful mutation command changes remotely
Changes(op) ==
    IF op \in ThreadOps THEN {ThreadListKey("a@x.com", Query)}
    ELSE IF op \in {"labelCreate", "labelDelete"} THEN {LabelsKey}
    ELSE {}

IdleRead ==
    [pc |-> "idle",        \* "idle", "fetching", "fetched", "done", "failed"
     key |-> NoKey,
     noCache |-> FALSE,    \* --no-cache was given
     value |-> <<>>,       \* <<the value the command has in hand>>
     \* observers
     hit |-> FALSE,        \* the value came from the cache
     stale |-> FALSE,      \* the hit was not what the remote service held
     fetched |-> FALSE,    \* the remote fetch was made
     faults |-> 0,         \* storage faults the cache met under this command
     saw |-> FALSE]        \* the key had a live entry when the command began

RaceIdle ==
    /\ remote = [k \in RaceKeys |-> 0]
    /\ reads = [r \in Readers |-> IdleRead]
    /\ cache = [k \in RaceKeys |-> NoEntry]
    /\ stored = <<>>
    /\ lastOp = Op("none", NoKey, {}, <<>>)
    /\ dirty = {}
    /\ lastCmd = NoCmd

getCached_Throws(c, k, fault) == IF fault THEN <<"error">> ELSE get(c, k)

\* cache.getCachedLabels() / getCachedProfile(account): the value, or nothing
\* for a miss; a storage fault is treated as a miss
getCached(c, k, fault) == IF fault THEN <<>> ELSE get(c, k)

\* cache.cacheLabels(labels) / cacheProfile(account, profile): a storage fault
\* leaves the store as it is
cacheValue(c, k, v, fault) ==
    IF fault THEN c ELSE put(c, k, v, GroupsOfKey(k), Ttl(k.kind))

Consults_Always(noCache) == TRUE

\* if (!options.noCache) / options.noCache ? null : new GmailCache()
Consults(noCache) == ~noCache

\* a read command up to its remote fetch: the cache is asked unless
\* --no-cache was given, and a hit ends the command
ReadBegin(r, k, noCache, fault) ==
    /\ reads[r].pc \in {"idle", "done", "failed"}
    /\ noCache => ~fault
    /\ LET found == IF Consults(noCache) THEN getCached(cache, k, fault) ELSE <<>>
       IN /\ reads' = [reads EXCEPT ![r] =
                [IdleRead EXCEPT
                    !.pc = IF found = <<"error">> THEN "failed"
                           ELSE IF found # <<>> THEN "done" ELSE "fetching",
                    !.key = k,
                    !.noCache = noCache,
                    !.value = found,
                    !.hit = found # <<>>,
                    !.stale = found # <<>> /\ found # <<RemoteVersion(remote[k])>>,
                    !.faults = IF fault THEN 1 ELSE 0,
                    !.saw = Live(cache[k])]]
          /\ cache' = IF Consults(noCache) /\ ~fault THEN expire(cache, k) ELSE cache
    /\ UNCHANGED <<remote, stored, lastOp, dirty, lastCmd, tokensFile>>

\* the remote fetch of the read command answers with what the service holds
\* now, or fails
ReadFetch(r, ok) ==
    /\ reads[r].pc = "fetching"
    /\ reads' = [reads EXCEPT ![r] =
            IF ok THEN [@ EXCEPT !.pc = "fetched",
                                 !.value = <<RemoteVersion(remote[reads[r].key])>>,
                                 !.fetched = TRUE]
            ELSE [@ EXCEPT !.pc = "failed", !.fetched = TRUE]]
    /\ UNCHANGED <<remote, cache, stored, lastOp, dirty, lastCmd, tokensFile>>

\* the fetched value is stored unless --no-cache was given, and returned
ReadStore(r, fault) ==
    /\ reads[r].pc = "fetched"
    /\ reads[r].noCache => ~fault
    /\ cache' = IF Consults(reads[r].noCache)
                THEN cacheValue(cache, reads[r].key, reads[r].value[1], fault)
                ELSE cache
    /\ reads' = [reads EXCEPT ![r].pc = "done",
                              ![r].faults = IF fault THEN @ + 1 ELSE @]
    /\ UNCHANGED <<remote, stored, lastOp, dirty, lastCmd, tokensFile>>

\* the remote entities after the remote call of a mutation command
Written(rem, op, ok) ==
    [k \in DOMAIN rem |-> IF ok /\ k \in Changes(op) THEN rem[k] + 1 ELSE rem[k]]

\* the mutation commands of the race: label create and a bulk action on t1
RaceOps == {"labelCreate", "bulkAction"}

\* ------------------------------------------------------------------------
\* CredentialStore: the accounts table, getClients, authenticateAccount
\* ------------------------------------------------------------------------
IdleProc ==
    [pc |-> "idle",        \* "idle", "start", "refreshing", "ready", "failed"
     tokens |-> <<>>,      \* <<the tokens read from the row>>
     client |-> <<>>,      \* <<the credentials of the client handed back>>
     err |-> "",
     \* observers
     refreshed |-> FALSE,  \* a refresh was persisted
     got |-> <<>>,         \* <<the refresh token of the refresh response>>
     tried |-> 0,          \* refresh exchanges attempted
     called |-> FALSE,     \* a remote mailbox call was made with the client
     \* the work of the profile command for the account
     profile |-> "none",   \* "none", "ok", "failed": the cached or fetched profile
     aliases |-> "none"]   \* "none", "ok", "failed": getEmailAliases()

IdleCmd ==
    [st |-> "idle",        \* "idle", "auth", "calling", "failed"
     sel |-> {},           \* the emails getClients authenticates
     err |-> "",
     single |-> FALSE,     \* the command asked getClient for its one client
     filter |-> {},        \* the accounts filter passed to getClient (observer)
     imported |-> FALSE,   \* the command imported the legacy file (observer)
     out |-> {}]           \* the accounts whose profile the command printed

\* no auth logout command has run
NoLogout ==
    [email |-> NoAccount,  \* the email argument, NoAccount when left out
     force |-> FALSE,
     asked |-> FALSE,      \* the prompt was shown
     answer |-> "",
     listed |-> {},        \* the emails listAccounts() gave
     target |-> NoAccount,
     outcome |-> "none"]   \* "none", "multiple", "not-found", "non-interactive",
                           \* "cancelled", "removed"

LogoutsIdle ==
    /\ gone = {}
    /\ lastLogout = NoLogout

CredIdle ==
    /\ LogoutsIdle
    /\ accounts = [e \in Accounts |-> <<>>]
    /\ tokensFile = <<>>
    /\ cmd = IdleCmd
    /\ proc = [e \in Accounts |-> IdleProc]

\* the errors that tell the user to log in
AuthRequired == {"no-accounts", "no-account", "auth"}

upsert_Insert(rows, tokens) == Append(rows, tokens)

\* prisma.accounts.upsert({ where: { email }, create, update }) on the rows
\* of one email: the row is updated when there is one, created otherwise
upsert(rows, tokens) ==
    IF rows = <<>> THEN <<tokens>> ELSE [i \in DOMAIN rows |-> tokens]

\* prisma.accounts.create() on the rows of one email: the table is keyed by
\* email, a second row for the key is refused
create(rows, tokens) == IF rows = <<>> THEN <<tokens>> ELSE rows

\* login(): the tokens of the browser flow are upserted for the email
login(e) ==
    /\ accounts' = [accounts EXCEPT ![e] = upsert(@, FreshCred)]
    /\ UNCHANGED <<tokensFile, cmd, proc>>

\* logout(email): the row is deleted
logout(e) ==
    /\ accounts[e] # <<>>
    /\ accounts' = [accounts EXCEPT ![e] = <<>>]
    /\ UNCHANGED <<tokensFile, cmd, proc>>

Migrates_FileOnly(accts, file) == file # <<>>

\* migrateLegacyTokens() runs when the legacy file exists and the table is
\* empty; a failure of the refresh or of getProfile() is caught
Migrates(accts, file) == file # <<>> /\ \A e \in DOMAIN accts : accts[e] = <<>>

\* the tokens migrateLegacyTokens() inserts: Object.assign(tokens, credentials)
MigratedTokens(file, credentials) ==
    IF NeedsRefresh(file[1].tokens) THEN merge(file[1].tokens, credentials) ELSE file[1].tokens

\* the table after migrateLegacyTokens(); migrated says whether it went through
MigratedAccounts(accts, file, credentials, migrated) ==
    IF Migrates(accts, file) /\ migrated
    THEN [accts EXCEPT ![file[1].email] = create(@, MigratedTokens(file, credentials))]
    ELSE accts

\* the legacy file after migrateLegacyTokens(): renamed once migrated
MigratedFile(accts, file, migrated) ==
    IF Migrates(accts, file) /\ migrated THEN <<>> ELSE file

\* can the refresh exchange succeed: it needs a refresh token
CanRefresh(tokens) == tokens.refresh # <<>>

\* getClients(accounts?): migration, the list of registered emails, the
\* filter, then authenticateAccount for every email left
getClients(sel, credentials, migrated, single) ==
    /\ cmd.st = "idle"
    /\ (Migrates(accounts, tokensFile) /\ migrated /\ NeedsRefresh(tokensFile[1].tokens))
          => CanRefresh(tokensFile[1].tokens)
    /\ LET accts == MigratedAccounts(accounts, tokensFile, credentials, migrated)
           allEmails == {e \in Accounts : accts[e] # <<>>}
           emails == IF sel = {} THEN allEmails ELSE allEmails \cap sel
       IN /\ accounts' = accts
          /\ tokensFile' = MigratedFile(accounts, tokensFile, migrated)
          /\ cmd' = [IF allEmails = {} THEN [IdleCmd EXCEPT !.st = "failed", !.err = "no-accounts"]
                      ELSE IF emails = {} THEN [IdleCmd EXCEPT !.st = "failed", !.err = "no-match"]
                      ELSE [IdleCmd EXCEPT !.st = "auth", !.sel = emails]
                        EXCEPT !.imported = Migrates(accounts, tokensFile) /\ migrated,
                               !.single = single,
                               !.filter = IF single THEN sel ELSE {}]
          /\ proc' = [e \in Accounts |->
                        IF e \in emails THEN [IdleProc EXCEPT !.pc = "start"] ELSE IdleProc]

\* authenticateAccount(email), run by the call p: the row is read; expired
\* tokens go to the refresh exchange
FindAt(p, e) ==
    /\ proc[p].pc = "start"
    /\ proc' = [proc EXCEPT ![p] =
          IF accounts[e] = <<>>
          THEN [@ EXCEPT !.pc = "failed", !.err = "no-account"]
          ELSE IF NeedsRefresh(accounts[e][1])
          THEN [@ EXCEPT !.pc = "refreshing", !.tokens = accounts[e], !.tried = @ + 1]
          ELSE [@ EXCEPT !.pc = "ready", !.tokens = accounts[e], !.client = accounts[e]]]
    /\ UNCHANGED <<accounts, tokensFile, cmd>>

\* the command runs one authenticateAccount per email
Find(e) == FindAt(e, e)

update_Upsert(rows, tokens) == <<tokens>>

\* prisma.accounts.update({ where: { email }, data }) on the rows of one
\* email: the row is rewritten; without a row nothing is written and the
\* call rejects
update(rows, tokens) == IF rows = <<>> THEN rows ELSE [i \in DOMAIN rows |-> tokens]

\* the refresh exchange of the call p answered: the merged tokens go to the
\* client and to the row, then the client is handed back
RefreshOkAt(p, e, credentials) ==
    /\ proc[p].pc = "refreshing"
    /\ CanRefresh(proc[p].tokens[1])
    /\ LET merged == merge(proc[p].tokens[1], credentials)
       IN /\ accounts' = [accounts EXCEPT ![e] = update(@, merged)]
          /\ proc' = IF update(accounts[e], merged) = <<>>
                     THEN [proc EXCEPT ![p].pc = "failed", ![p].err = "no-record"]
                     ELSE [proc EXCEPT ![p].pc = "ready", ![p].client = <<merged>>,
                                       ![p].refreshed = TRUE, ![p].got = credentials.refresh]
    /\ UNCHANGED <<tokensFile, cmd>>

RefreshOk(e, credentials) == RefreshOkAt(e, e, credentials)

RowAfterFailure_Cleared(row) == <<>>

\* the row after a failed refresh exchange: the throw comes before the update
RowAfterFailure(row) == row

\* the refresh exchange of the call p failed: refreshAccessToken() throws
RefreshFailAt(p, e, kind) ==
    /\ proc[p].pc = "refreshing"
    /\ CanRefresh(proc[p].tokens[1]) \/ kind = "auth"
    /\ proc' = [proc EXCEPT ![p].pc = "failed", ![p].err = kind]
    /\ accounts' = [accounts EXCEPT ![e] = RowAfterFailure(@)]
    /\ UNCHANGED <<tokensFile, cmd>>

RefreshFail(e, kind) == RefreshFailAt(e, e, kind)

AllReady_Any(sel) == \E e \in sel : proc[e].pc = "ready"

\* Promise.all: every authenticateAccount handed its client back
AllReady(sel) == \A e \in sel : proc[e].pc = "ready"

getClient_First(clients) == "ok"

\* getClient(accounts?): the one client of getClients, or the error that
\* several accounts matched
getClient(clients) == IF Cardinality(clients) = 1 THEN "ok" ELSE "multiple"

\* getClients resolves with the clients, or rejects with the first failure;
\* getClient then hands on the only client
Settle ==
    /\ cmd.st = "auth"
    /\ \/ /\ AllReady(cmd.sel)
          /\ cmd' = IF cmd.single /\ getClient(cmd.sel) # "ok"
                    THEN [cmd EXCEPT !.st = "failed", !.err = getClient(cmd.sel)]
                    ELSE [cmd EXCEPT !.st = "calling"]
       \/ \E e \in cmd.sel :
             /\ proc[e].pc = "failed"
             /\ cmd' = [cmd EXCEPT !.st = "failed", !.err = proc[e].err]
    /\ UNCHANGED <<accounts, tokensFile, proc>>

\* the command calls the remote mailbox with the client of an account
RemoteCall(e) ==
    /\ cmd.st = "calling"
    /\ e \in cmd.sel
    /\ ~proc[e].called
    /\ proc' = [proc EXCEPT ![e].called = TRUE]
    /\ UNCHANGED <<accounts, tokensFile, cmd>>

\* the command is over, with its error when it failed
CmdEnd ==
    /\ cmd.st \in {"failed", "calling"}
    /\ cmd' = IdleCmd
    /\ proc' = [e \in Accounts |-> IdleProc]
    /\ UNCHANGED <<accounts, tokensFile>>

\* a command of the single-account program authenticates
Authenticate(e, credentials) ==
    /\ Authenticated(e)
    /\ (tokensFile # <<>> /\ NeedsRefresh(tokensFile[1].tokens)) => CanRefresh(tokensFile[1].tokens)
    /\ tokensFile' = authenticate(tokensFile, e, credentials)
    /\ UNCHANGED <<accounts, cmd, proc>>

\* one tick of time passes for every credential; a tick is long against the
\* run of one command, so time passes between the commands
CredTick ==
    /\ cmd.st = "idle"
    /\ accounts' = [e \in Accounts |-> AgedBox(accounts[e])]
    /\ tokensFile' = IF tokensFile = <<>> THEN <<>>
                     ELSE <<[tokensFile[1] EXCEPT !.tokens = AgedCred(@)]>>
    /\ UNCHANGED <<cmd, proc>>

\* ------------------------------------------------------------------------
\* The auth commands: auth login, auth logout [email], auth status
\* ------------------------------------------------------------------------
\* the email arguments of auth logout: none, or one of the accounts
EmailArgs == {NoAccount} \cup Accounts

\* const targetEmail = email ?? accounts[0]
targetEmail(listed, email) ==
    IF email # NoAccount THEN email ELSE CHOOSE e \in listed : TRUE

Confirmed_Unasked(force, isTTY, typed) ==
    IF ~force /\ isTTY /\ toLowerCase(typed) # "y" THEN "cancelled" ELSE "removed"

\* the confirmation of auth logout: --force skips it, without a terminal the
\* command refuses, and only the answer y goes on
Confirmed(force, isTTY, typed) ==
    IF force THEN "removed"
    ELSE IF ~isTTY THEN "non-interactive"
    ELSE IF toLowerCase(typed) # "y" THEN "cancelled"
    ELSE "removed"

\* what auth logout does for the listed accounts and its arguments
LogoutOutcome(listed, email, force, isTTY, typed) ==
    IF listed = {} THEN "none"
    ELSE IF email = NoAccount /\ Cardinality(listed) > 1 THEN "multiple"
    ELSE IF targetEmail(listed, email) \notin listed THEN "not-found"
    ELSE Confirmed(force, isTTY, typed)

\* auth logout [email] [--force]: listAccounts() (which migrates first), the
\* checks, the confirmation, then logout(targetEmail)
authLogout(email, force, isTTY, typed, credentials, migrated) ==
    /\ cmd.st = "idle"
    /\ (Migrates(accounts, tokensFile) /\ migrated /\ NeedsRefresh(tokensFile[1].tokens))
          => CanRefresh(tokensFile[1].tokens)
    /\ LET accts == MigratedAccounts(accounts, tokensFile, credentials, migrated)
           listed == {e \in Accounts : accts[e] # <<>>}
           outcome == LogoutOutcome(listed, email, force, isTTY, typed)
           target == IF outcome \in {"none", "multiple"} THEN NoAccount
                     ELSE targetEmail(listed, email)
           asked == outcome \in {"cancelled", "removed"} /\ ~force
       IN /\ asked \/ typed = ""
          /\ accounts' = IF outcome = "removed" THEN [accts EXCEPT ![target] = <<>>] ELSE accts
          /\ tokensFile' = MigratedFile(accounts, tokensFile, migrated)
          /\ gone' = IF outcome = "removed" THEN gone \cup {target} ELSE gone
          /\ lastLogout' = [email |-> email, force |-> force, asked |-> asked,
                            answer |-> typed, listed |-> listed, target |-> target,
                            outcome |-> outcome]
    /\ UNCHANGED <<cmd, proc>>

\* auth login: login(), which upserts the account
authLogin(e) ==
    /\ cmd.st = "idle"
    /\ login(e)
    /\ gone' = gone \ {e}
    /\ UNCHANGED lastLogout

\* auth status: getAuthStatuses() migrates, then lists the rows
authStatus(credentials, migrated) ==
    /\ cmd.st = "idle"
    /\ (Migrates(accounts, tokensFile) /\ migrated /\ NeedsRefresh(tokensFile[1].tokens))
          => CanRefresh(tokensFile[1].tokens)
    /\ accounts' = MigratedAccounts(accounts, tokensFile, credentials, migrated)
    /\ tokensFile' = MigratedFile(accounts, tokensFile, migrated)
    /\ UNCHANGED <<cmd, proc, authObs>>

\* ------------------------------------------------------------------------
\* AccessFacade: the profile command, account by account
\* ------------------------------------------------------------------------
\* the profile of the account is in hand (from the cache or by getProfile())
\* or getting it threw
getProfile(e, ok) ==
    /\ cmd.st = "calling"
    /\ e \in cmd.sel
    /\ proc[e].profile = "none"
    /\ proc' = [proc EXCEPT ![e].profile = IF ok THEN "ok" ELSE "failed",
                            ![e].called = TRUE]
    /\ UNCHANGED <<accounts, tokensFile, cmd>>

\* client.getEmailAliases() of the account answered or threw
getEmailAliases(e, ok) ==
    /\ cmd.st = "calling"
    /\ proc[e].profile = "ok"
    /\ proc[e].aliases = "none"
    /\ proc' = [proc EXCEPT ![e].aliases = IF ok THEN "ok" ELSE "failed"]
    /\ UNCHANGED <<accounts, tokensFile, cmd>>

\* the promise of the account's work: "pending", "fulfilled", "rejected"
Settled(p) ==
    IF p.profile = "failed" \/ p.aliases = "failed" THEN "rejected"
    ELSE IF p.aliases = "ok" THEN "fulfilled"
    ELSE "pending"

printed_AllOrNothing(sel) ==
    IF \A e \in sel : Settled(proc[e]) = "fulfilled" THEN sel ELSE {}

\* Promise.allSettled, then the results that were fulfilled are printed
printed(sel) == {e \in sel : Settled(proc[e]) = "fulfilled"}

\* every account's work settled: the command prints
PrintProfiles ==
    /\ cmd.st = "calling"
    /\ \A e \in cmd.sel : Settled(proc[e]) # "pending"
    /\ cmd' = [cmd EXCEPT !.st = "printed", !.out = printed(cmd.sel)]
    /\ UNCHANGED <<accounts, tokensFile, proc>>

\* the profile command is over: it printed, or getClients rejected
ProfileEnd ==
    /\ cmd.st \in {"failed", "printed"}
    /\ cmd' = IdleCmd
    /\ proc' = [e \in Accounts |-> IdleProc]
    /\ UNCHANGED <<accounts, tokensFile>>

\* ------------------------------------------------------------------------
\* CredentialStore: calls for one account in flight together
\* ------------------------------------------------------------------------
\* the commands that run at the same time, each in its own process on the
\* shared accounts table, and the account they all authenticate
Slots == {"p1", "p2"}
Shared == "a@x.com"

SlotsIdle ==
    /\ LogoutsIdle
    /\ accounts = [e \in Accounts |-> <<>>]
    /\ tokensFile = <<>>
    /\ cmd = IdleCmd
    /\ proc = [p \in Slots |-> IdleProc]

\* a command found the account in the list of registered emails and calls
\* authenticateAccount for it
CallFor(p, e) ==
    /\ proc[p].pc \in {"idle", "ready", "failed"}
    /\ accounts[e] # <<>>
    /\ proc' = [proc EXCEPT ![p] = [IdleProc EXCEPT !.pc = "start"]]
    /\ UNCHANGED <<accounts, tokensFile, cmd>>

\* ------------------------------------------------------------------------
\* Specifications
\* ------------------------------------------------------------------------
\* what each component leaves alone
outsideFetch == <<served, transVars, cacheVars, raceVars, credVars, authObs>>
outsideTransport == <<fetchVars, served, cacheVars, raceVars, credVars, authObs>>
outsideCache == <<fetchVars, served, transVars, raceVars, accounts, cmd, proc, authObs>>
outsideCred == <<fetchVars, served, transVars, cacheVars, raceVars, authObs>>
outsideRace == <<fetchVars, served, transVars, accounts, cmd, proc, authObs>>
outsideAuth == <<fetchVars, served, transVars, cacheVars, raceVars>>

InitFetch == FetchIdle /\ TransportIdle /\ CacheIdle /\ CredIdle

NextFetch ==
    \/ \E ts \in Batches, L \in Limits : FetchAll(ts, L) /\ UNCHANGED outsideFetch
    \/ \E i \in 1..MaxJobs : Acquire(i) /\ UNCHANGED outsideFetch
    \/ \E i \in 1..MaxJobs, s \in Statuses : JobRespond(i, s) /\ UNCHANGED outsideFetch
    \/ \E i \in 1..MaxJobs : JobWake(i) /\ UNCHANGED outsideFetch
    \/ FetchReturn /\ UNCHANGED outsideFetch

SpecFetch == InitFetch /\ [][NextFetch]_vars

\* the answers of the batch specification: success, a transient failure that
\* is retried once, and a failure that is not retried
BatchStatuses == {200, 500, 404}

\* a batch that may fail in part and that its caller may abandon
NextBatch ==
    \/ \E ts \in Batches, L \in Limits : FetchAll(ts, L) /\ UNCHANGED outsideFetch
    \/ \E i \in 1..MaxJobs : Acquire(i) /\ UNCHANGED outsideFetch
    \/ \E i \in 1..MaxJobs, s \in BatchStatuses : JobRespond(i, s) /\ UNCHANGED outsideFetch
    \/ \E i \in 1..MaxJobs : JobWake(i) /\ UNCHANGED outsideFetch
    \/ FetchReturn /\ UNCHANGED outsideFetch
    \/ Abandon /\ UNCHANGED outsideFetch

SpecBatch == InitFetch /\ [][NextBatch]_vars

\* a slot that is free is taken, a call is answered within its timeout, and a
\* backoff ends
FairBatch ==
    /\ \A i \in 1..MaxJobs : WF_vars(Acquire(i) /\ UNCHANGED outsideFetch)
    /\ \A i \in 1..MaxJobs :
          WF_vars(\E s \in BatchStatuses : JobRespond(i, s) /\ UNCHANGED outsideFetch)
    /\ \A i \in 1..MaxJobs : WF_vars(JobWake(i) /\ UNCHANGED outsideFetch)
    /\ WF_vars(FetchReturn /\ UNCHANGED outsideFetch)

SpecBatchFair == SpecBatch /\ FairBatch

\* the simulated remote service of the end-to-end scenario answers every
\* FailEvery-th call, counted over all jobs and retries, with 429
FailEvery == 3

\* the answer to the next call when n calls were served since the last 429
ServiceStatus(n) == IF n + 1 = FailEvery THEN 429 ELSE 200

\* the batches of the scenario: up to ScenarioJobs jobs
ScenarioBatches == {[i \in 1..n |-> ThreadIdOf(i, n)] : n \in 0..ScenarioJobs}

\* a batch against the simulated service
NextScenario ==
    \/ \E ts \in ScenarioBatches, L \in Limits :
          FetchAll(ts, L) /\ UNCHANGED outsideFetch
    \/ \E i \in 1..ScenarioJobs : Acquire(i) /\ UNCHANGED outsideFetch
    \/ \E i \in 1..ScenarioJobs :
          /\ JobRespond(i, ServiceStatus(served))
          /\ served' = (served + 1) % FailEvery
          /\ UNCHANGED <<transVars, cacheVars, raceVars, credVars, authObs>>
    \/ \E i \in 1..ScenarioJobs : JobWake(i) /\ UNCHANGED outsideFetch
    \/ FetchReturn /\ UNCHANGED outsideFetch

SpecScenario == InitFetch /\ [][NextScenario]_vars

InitTransport == FetchIdle /\ TransportIdle /\ CacheIdle /\ CredIdle

\* the calls of both accounts, concurrently
NextTransport ==
    \/ \E c \in Calls : Start(c) /\ UNCHANGED outsideTransport
    \/ \E c \in Calls, resp \in Responses : Respond(c, resp) /\ UNCHANGED outsideTransport
    \/ \E c \in Calls : Wake(c) /\ UNCHANGED outsideTransport
    \/ \E c \in Calls : Return(c) /\ UNCHANGED outsideTransport
    \/ Tick /\ UNCHANGED outsideTransport

SpecTransport == InitTransport /\ [][NextTransport]_vars

\* one account issuing its calls one after the other
Caller == {"a@x.com"}

NextRetry ==
    \/ \E c \in Caller : Start(c) /\ UNCHANGED outsideTransport
    \/ \E c \in Caller, resp \in Responses : Respond(c, resp) /\ UNCHANGED outsideTransport
    \/ \E c \in Caller : Wake(c) /\ UNCHANGED outsideTransport
    \/ \E c \in Caller : Return(c) /\ UNCHANGED outsideTransport
    \/ Tick /\ UNCHANGED outsideTransport

SpecRetry == InitTransport /\ [][NextRetry]_vars

\* a response is awaited with a finite per-attempt timeout, a sleeping call is
\* woken, and time passes
FairRetry ==
    /\ WF_vars(\E c \in Caller, resp \in Responses : Respond(c, resp) /\ UNCHANGED outsideTransport)
    /\ WF_vars(\E c \in Caller : Wake(c) /\ UNCHANGED outsideTransport)
    /\ WF_vars(Tick /\ UNCHANGED outsideTransport)

SpecRetryFair == SpecRetry /\ FairRetry

InitCache == FetchIdle /\ TransportIdle /\ CacheIdle /\ CredIdle

\* the cache layer under every sequence of its operations
NextCache ==
    \/ \E k \in LayerKeys, v \in Payloads, g \in GroupSets, ttl \in Ttls :
          Put(k, v, g, ttl) /\ UNCHANGED outsideCache
    \/ \E k \in LayerKeys : Get(k) /\ UNCHANGED outsideCache
    \/ \E G \in Groups : Invalidate(G) /\ UNCHANGED outsideCache
    \/ \E k \in LayerKeys : InvalidateKey(k) /\ UNCHANGED outsideCache
    \/ CacheTick /\ UNCHANGED outsideCache
    \/ \E ids \in SUBSET ThreadIds, ok \in BOOLEAN :
          bulkAction("a@x.com", ids, ok) /\ UNCHANGED outsideCache

SpecCache == InitCache /\ [][NextCache]_vars

InitFacade == FetchIdle /\ TransportIdle /\ FacadeIdle /\ CredIdle

\* the commands, one at a time
NextFacade ==
    \/ \E e \in Accounts, noCache \in BOOLEAN, ok \in BOOLEAN :
          LabelList(e, noCache, ok) /\ UNCHANGED outsideCache
    \/ \E sel \in SUBSET Accounts, noCache \in BOOLEAN, failed \in SUBSET Accounts :
          Profile(sel, noCache, failed) /\ UNCHANGED outsideCache
    \/ \E k \in ListKeys, noCache \in BOOLEAN, ok \in BOOLEAN :
          ListThreads(k, noCache, ok) /\ UNCHANGED outsideCache
    \/ \E e \in Accounts, ids \in SUBSET ThreadIds, ok \in BOOLEAN :
          bulkAction(e, ids, ok) /\ UNCHANGED outsideCache
    \/ AuthLogout /\ UNCHANGED outsideCache
    \/ FacadeTick /\ UNCHANGED outsideCache

SpecFacade == InitFacade /\ [][NextFacade]_vars

InitMutation == FetchIdle /\ TransportIdle /\ MutationIdle /\ CredIdle

\* reads that fill the cache and mutation commands, one command at a time
NextMutation ==
    \/ \E k \in MutationKeys : Fill(k) /\ UNCHANGED outsideCache
    \/ \E op \in MutationOps, ids \in SUBSET TargetIds, force \in BOOLEAN, isTTY \in BOOLEAN,
          typed \in Answers :
          MutationCall(op, ids, force, isTTY, typed) /\ UNCHANGED outsideCache
    \/ \E ok \in BOOLEAN, spam \in SUBSET TargetIds :
          MutationReturn(ok, spam) /\ UNCHANGED outsideCache

SpecMutation == InitMutation /\ [][NextMutation]_vars

InitRace == FetchIdle /\ TransportIdle /\ RaceIdle /\ CredIdle

\* read commands, each in its steps, together with mutation commands
NextRace ==
    \/ \E r \in Readers, k \in RaceKeys, noCache \in BOOLEAN, fault \in BOOLEAN :
          ReadBegin(r, k, noCache, fault) /\ UNCHANGED outsideRace
    \/ \E r \in Readers, ok \in BOOLEAN : ReadFetch(r, ok) /\ UNCHANGED outsideRace
    \/ \E r \in Readers, fault \in BOOLEAN : ReadStore(r, fault) /\ UNCHANGED outsideRace
    \/ \E op \in RaceOps :
          /\ \A k \in Changes(op) \cap RaceKeys : remote[k] < MaxWrites
          /\ MutationCall(op, IF op = "bulkAction" THEN {"t1"} ELSE {}, FALSE, FALSE, "")
          /\ UNCHANGED <<raceVars, outsideRace>>
    \/ \E ok \in BOOLEAN :
          /\ MutationReturn(ok, IF ok THEN lastCmd.ids ELSE {})
          /\ remote' = Written(remote, lastCmd.op, ok)
          /\ UNCHANGED <<reads, outsideRace>>

SpecRace == InitRace /\ [][NextRace]_vars

InitCred == FetchIdle /\ TransportIdle /\ CacheIdle /\ CredIdle

\* logins, logouts and commands of the multi-account program, and commands
\* of the single-account program for one account
NextCred ==
    \/ \E e \in Accounts : login(e) /\ UNCHANGED outsideCred
    \/ \E e \in Accounts : logout(e) /\ UNCHANGED outsideCred
    \/ \E sel \in SUBSET Accounts, r \in RefreshResponses, m \in BOOLEAN :
          getClients(sel, r, m, FALSE) /\ UNCHANGED outsideCred
    \/ \E e \in Accounts : Find(e) /\ UNCHANGED outsideCred
    \/ \E e \in Accounts, r \in RefreshResponses : RefreshOk(e, r) /\ UNCHANGED outsideCred
    \/ \E e \in Accounts, k \in RefreshFailures : RefreshFail(e, k) /\ UNCHANGED outsideCred
    \/ Settle /\ UNCHANGED outsideCred
    \/ \E e \in Accounts : RemoteCall(e) /\ UNCHANGED outsideCred
    \/ CmdEnd /\ UNCHANGED outsideCred
    \/ \E e \in Caller, r \in RefreshResponses : Authenticate(e, r) /\ UNCHANGED outsideCred
    \/ CredTick /\ UNCHANGED outsideCred

SpecCred == InitCred /\ [][NextCred]_vars

\* logins, logouts and commands that ask getClient for their one client
NextClient ==
    \/ \E e \in Accounts : login(e) /\ UNCHANGED outsideCred
    \/ \E e \in Accounts : logout(e) /\ UNCHANGED outsideCred
    \/ \E sel \in SUBSET Accounts, r \in RefreshResponses :
          getClients(sel, r, FALSE, TRUE) /\ UNCHANGED outsideCred
    \/ \E e \in Accounts : Find(e) /\ UNCHANGED outsideCred
    \/ \E e \in Accounts, r \in RefreshResponses : RefreshOk(e, r) /\ UNCHANGED outsideCred
    \/ \E e \in Accounts, k \in RefreshFailures : RefreshFail(e, k) /\ UNCHANGED outsideCred
    \/ Settle /\ UNCHANGED outsideCred
    \/ CmdEnd /\ UNCHANGED outsideCred
    \/ CredTick /\ UNCHANGED outsideCred

SpecClient == InitCred /\ [][NextClient]_vars

\* logins and profile commands, each account's work in its steps
NextProfile ==
    \/ \E e \in Accounts : login(e) /\ UNCHANGED outsideCred
    \/ \E sel \in SUBSET Accounts, r \in RefreshResponses :
          getClients(sel, r, FALSE, FALSE) /\ UNCHANGED outsideCred
    \/ \E e \in Accounts : Find(e) /\ UNCHANGED outsideCred
    \/ \E e \in Accounts, r \in RefreshResponses : RefreshOk(e, r) /\ UNCHANGED outsideCred
    \/ \E e \in Accounts, k \in RefreshFailures : RefreshFail(e, k) /\ UNCHANGED outsideCred
    \/ Settle /\ UNCHANGED outsideCred
    \/ \E e \in Accounts, ok \in BOOLEAN : getProfile(e, ok) /\ UNCHANGED outsideCred
    \/ \E e \in Accounts, ok \in BOOLEAN : getEmailAliases(e, ok) /\ UNCHANGED outsideCred
    \/ PrintProfiles /\ UNCHANGED outsideCred
    \/ ProfileEnd /\ UNCHANGED outsideCred
    \/ CredTick /\ UNCHANGED outsideCred

SpecProfile == InitCred /\ [][NextProfile]_vars

\* the single-account program is in use: the accounts table was never written
BeforeUpgrade == gone = {} /\ \A e \in Accounts : accounts[e] = <<>>

\* the auth commands and the commands that resolve clients, one command at a
\* time; the tokens file is what the single-account program left behind
NextAuth ==
    \/ \E e \in Accounts : authLogin(e) /\ UNCHANGED outsideAuth
    \/ \E email \in EmailArgs, force \in BOOLEAN, isTTY \in BOOLEAN, typed \in Answers,
          r \in RefreshResponses, m \in BOOLEAN :
          authLogout(email, force, isTTY, typed, r, m) /\ UNCHANGED outsideAuth
    \/ \E r \in RefreshResponses, m \in BOOLEAN : authStatus(r, m) /\ UNCHANGED outsideAuth
    \/ \E sel \in SUBSET Accounts, r \in RefreshResponses, m \in BOOLEAN :
          getClients(sel, r, m, FALSE) /\ UNCHANGED outsideCred
    \/ \E e \in Accounts : Find(e) /\ UNCHANGED outsideCred
    \/ Settle /\ UNCHANGED outsideCred
    \/ CmdEnd /\ UNCHANGED outsideCred
    \/ \E e \in Caller, r \in RefreshResponses :
          /\ cmd.st = "idle"
          /\ BeforeUpgrade
          /\ Authenticate(e, r)
          /\ UNCHANGED outsideCred

SpecAuth == InitCred /\ [][NextAuth]_vars

InitRefresh == FetchIdle /\ TransportIdle /\ CacheIdle /\ SlotsIdle

\* login and logout of one account while two commands authenticate it
NextRefresh ==
    \/ login(Shared) /\ UNCHANGED outsideCred
    \/ logout(Shared) /\ UNCHANGED outsideCred
    \/ \E p \in Slots : CallFor(p, Shared) /\ UNCHANGED outsideCred
    \/ \E p \in Slots : FindAt(p, Shared) /\ UNCHANGED outsideCred
    \/ \E p \in Slots, r \in RefreshResponses :
          RefreshOkAt(p, Shared, r) /\ UNCHANGED outsideCred
    \/ \E p \in Slots, k \in RefreshFailures :
          RefreshFailAt(p, Shared, k) /\ UNCHANGED outsideCred
    \/ CredTick /\ UNCHANGED outsideCred

SpecRefresh == InitRefresh /\ [][NextRefresh]_vars

\* ------------------------------------------------------------------------
\* Properties: ConcurrentFetcher
\* ------------------------------------------------------------------------

\* C1: when fetchAll returns, the result array has one entry per submitted job
\* (also for an empty batch) and entry i is the outcome of job i, whatever the
\* order in which the jobs completed
C1_ResultsInInputOrder ==
    fpc = "returned" =>
        /\ Len(returned) = Len(threads)
        /\ \A i \in 1..Len(threads) :
              /\ returned[i] = job[i].out
              /\ returned[i].id = threads[i]
              /\ returned[i].kind # "empty"

\* a batch returned whose last job completed first and one of whose jobs failed
C1_Witness ==
    /\ fpc = "returned"
    /\ Len(threads) = MaxJobs
    /\ finished[1] = MaxJobs
    /\ \E i \in 1..Len(threads) : returned[i].kind = "RateLimitError"

\* C2: at every point of a batch the jobs that started and have not finished,
\* those waiting in a backoff included, number at most the concurrency limit
C2_AtMostLimitInFlight ==
    /\ Cardinality(InFlight) <= limit
    /\ limit <= maxConcurrency

\* the limit is reached, with one job in a backoff and another kept waiting
C2_Witness ==
    /\ limit < MaxJobs
    /\ Cardinality(InFlight) = limit
    /\ \E i \in DOMAIN job : job[i].pc = "backoff"
    /\ \E i \in DOMAIN job : job[i].pc = "spawned"

\* the jobs that failed so far
FailedJobs == {i \in DOMAIN job : job[i].pc = "done" /\ IsError(job[i].out)}

\* the jobs without a result
Unresolved == {i \in DOMAIN job : job[i].pc # "done" \/ results[i] = Empty}

C24_FirstErrorNoPartialResult ==
    (fpc = "returned" /\ FailedJobs # {}) =>
        /\ answer.kind = "error"
        /\ answer.values = <<>>
        /\ \E i \in FailedJobs :
              /\ \A j \in FailedJobs : i <= j
              /\ answer.error = job[i].out

\* a read answered with the error of its second job: the first job fetched
\* its thread, and the third job failed as well, differently and earlier
C24_Witness ==
    /\ fpc = "returned"
    /\ Len(threads) = 3
    /\ returned[1].kind = "thread"
    /\ returned[2].kind = "NotFoundError"
    /\ returned[3].kind = "TransientServer"
    /\ finished[1] = 3
    /\ answer.kind = "error"
    /\ answer.error = returned[2]

SafeJobs == (FailEvery - 1) * (MaxRetries429 + 1) + 1

Rejected(c) ==
    /\ call[c].pc = "done"
    /\ call[c].attempts = 0
    /\ call[c].result = "CircuitBreakerError"

\* C3: once Threshold calls of the family have failed in a row, whatever their
\* accounts, the circuit is not closed, and a call that started while the
\* cool-down had not elapsed ended with the circuit-open error without a
\* remote attempt
C3_OpenAfterThreshold ==
    /\ Streak(log) >= Threshold => cb[Family].status # "closed"
    /\ \A c \in Calls : call[c].gate = "cooling" => Rejected(c)

\* the first Threshold calls failed at the remote service, the last of them
\* for account a, and a call for account b was then rejected
C3_Witness ==
    /\ log = [i \in 1..Threshold |-> "fail"]
    /\ call["a@x.com"].pc = "done"
    /\ call["a@x.com"].attempts > 0
    /\ call["a@x.com"].result # "ok"
    /\ call["b@x.com"].gate = "cooling"
    /\ Rejected("b@x.com")
    /\ sinceTrip = CoolDown - 1

Probes == {c \in Calls : call[c].probe /\ call[c].pc \in {"attempting", "backoff"}}

\* C4: at most one probe is in flight; the circuit is half-open exactly while
\* the probe is unresolved; the call that starts after the cool-down is the
\* probe, and every call that starts while the circuit is half-open is
\* rejected without a remote attempt
C4_SingleProbe ==
    /\ Cardinality(Probes) <= 1
    /\ cb[Family].status = "halfOpen" <=> Probes # {}
    /\ \A c \in Calls : call[c].gate = "elapsed" => call[c].probe
    /\ \A c \in Calls : call[c].gate = "halfOpen" => Rejected(c)

\* a probe is waiting for the remote service and a call that arrived
\* meanwhile has been rejected
C4_Witness ==
    \E c, d \in Calls :
        /\ c \in Probes
        /\ call[c].attempts > 0
        /\ call[d].gate = "halfOpen"
        /\ Rejected(d)

ProbeResolves(c) ==
    /\ call[c].probe
    /\ call[c].pc = "attempting"
    /\ call'[c].pc = "done"

\* C5: a probe that succeeds leaves the circuit closed with a zero counter; a
\* probe that fails leaves it open with the cool-down restarted, and while
\* that cool-down has not elapsed a starting call is rejected
C5_ProbeOutcome ==
    /\ [][\A c \in Calls : ProbeResolves(c) =>
             IF call'[c].result = "ok"
             THEN cb'[Family].status = "closed" /\ cb'[Family].failures = 0
             ELSE cb'[Family].status = "open" /\ sinceTrip' = 0]_vars
    /\ [](cb[Family].status = "open" /\ sinceTrip < CoolDown
             => Admission(cb[Family]) = "reject")

\* a probe has failed and the restarted cool-down has not elapsed
C5_Witness ==
    \E c \in Calls :
        /\ call[c].probe
        /\ call[c].pc = "done"
        /\ call[c].result \notin {"ok", "CircuitBreakerError"}
        /\ cb[Family].status = "open"
        /\ sinceTrip < CoolDown

\* C6: while the circuit is closed its counter is the number of calls that
\* failed since the last success, and the circuit leaves the closed state only
\* when Threshold calls have failed in a row
C6_CounterResetsOnSuccess ==
    /\ [](cb[Family].status = "closed" => cb[Family].failures = Streak(log))
    /\ [][cb[Family].status = "closed" /\ cb'[Family].status # "closed"
             => Streak(log') >= Threshold]_vars

\* Threshold failures with a success in between, and the circuit is closed
C6_Witness ==
    /\ cb[Family].status = "closed"
    /\ Len(log) = WindowLen
    /\ log[WindowLen] = "fail"
    /\ log[WindowLen - 1] = "ok"
    /\ \A i \in 1..(WindowLen - 2) : log[i] = "fail"

\* ------------------------------------------------------------------------
\* Properties: retry and backoff
\* ------------------------------------------------------------------------
AttemptCap429 == MaxRetries429 + 1

Resolved(c) == call[c].pc = "done" /\ call[c].attempts > 0

\* C7: a call all of whose attempts are answered 429 never makes more than
\* 1 + 3 attempts, ends with the rate-limit error after exactly that many, and
\* does end
C7_RateLimitedTerminates ==
    /\ [](\A c \in Calls :
            call[c].got429 = call[c].attempts =>
               /\ call[c].attempts <= AttemptCap429
               /\ Resolved(c) =>
                     /\ call[c].result = "RateLimitError"
                     /\ call[c].attempts = AttemptCap429)
    /\ \A c \in Caller : call[c].pc \in {"attempting", "backoff"} ~> call[c].pc = "done"

\* the call made the last attempt the budget allows, was answered 429 every
\* time and returned the rate-limit error
C7_Witness ==
    \E c \in Calls :
        /\ Resolved(c)
        /\ call[c].got429 = AttemptCap429
        /\ call[c].result = "RateLimitError"

\* C8: a call returns a retryable error only with the budget of that class
\* spent, a success is returned as success after any number of retries, and a
\* call that backs off does make its next attempt
C8_RetriesAreInternal ==
    /\ [](\A c \in Calls : Resolved(c) =>
            /\ call[c].result = "RateLimitError" => call[c].n429 = MaxRetries429
            /\ call[c].result = "TransientServer" => call[c].n5xx = MaxRetries5xx
            /\ call[c].resp[1].status = 200 => call[c].result = "ok"
            /\ call[c].result = "ok" => call[c].resp[1].status = 200)
    /\ \A c \in Caller : call[c].pc = "backoff" ~> call[c].pc = "attempting"

\* a success returned after retryable failures of both classes
C8_Witness ==
    \E c \in Calls :
        /\ Resolved(c)
        /\ call[c].result = "ok"
        /\ call[c].got429 = MaxRetries429 - 1
        /\ call[c].got5xx = MaxRetries5xx

\* a call that has just been answered 429 and starts its backoff: sleep is
\* the delay it will wait, n429 the number k of the retry
Backing429(c) ==
    /\ call[c].pc = "backoff"
    /\ call[c].resp # <<>>
    /\ call[c].resp[1].status = 429

KthBase(c) == TicksPerUnit * Pow2(call[c].n429 - 1)

\* C9 as stated: the delay before the k-th retry is at least base * 2^(k-1)
\* and at most 1.5 times that, and at least the server's minimum wait
C9_DelayBoundsAlways ==
    \A c \in Calls : Backing429(c) =>
        /\ call[c].sleep >= KthBase(c)
        /\ 2 * call[c].sleep <= 3 * KthBase(c)
        /\ call[c].resp[1].retryAfter # <<>> => call[c].sleep >= call[c].resp[1].retryAfter[1]

\* C9 amended: without a server-specified minimum wait the delay before the
\* k-th retry is at least base * 2^(k-1) and at most 1.5 times that; with
\* one, the delay is at least that minimum
C9_DelayBounds ==
    \A c \in Calls : Backing429(c) =>
        IF call[c].resp[1].retryAfter = <<>>
        THEN /\ call[c].sleep >= KthBase(c)
             /\ 2 * call[c].sleep <= 3 * KthBase(c)
        ELSE call[c].sleep >= call[c].resp[1].retryAfter[1]

\* a third retry delayed by more than its base (jitter), no minimum given
C9_Witness ==
    \E c \in Calls :
        /\ Backing429(c)
        /\ call[c].resp[1].retryAfter = <<>>
        /\ call[c].n429 = MaxRetries429
        /\ call[c].sleep > KthBase(c)

\* C10: a call is answered 5xx at most twice; the first 5xx is retried after
\* exactly one time unit; the transient-server error is returned only when
\* the retry was made and a second 5xx came
C10_Retry5xxOnce ==
    \A c \in Calls :
        /\ call[c].got5xx <= 2
        /\ call[c].n5xx <= 1
        /\ (call[c].pc = "backoff" /\ call[c].resp # <<>> /\ call[c].resp[1].status >= 500)
              => call[c].sleep = TicksPerUnit /\ call[c].got5xx = 1
        /\ call[c].result = "TransientServer" => call[c].got5xx = 2 /\ call[c].n5xx = 1
        /\ (Resolved(c) /\ call[c].resp[1].status >= 500) => call[c].result = "TransientServer"

\* the retry of a 5xx was answered 5xx again and the error was returned
C10_Witness ==
    \E c \in Calls :
        /\ Resolved(c)
        /\ call[c].result = "TransientServer"
        /\ call[c].attempts = 2

\* the latest response of a call is an error outside the retryable classes
AnsweredNonRetryable(c) ==
    /\ call[c].resp # <<>>
    /\ call[c].resp[1].status >= 400
    /\ ~IsRetryable(call[c].resp[1].status)

\* C11 as stated: a call that ends with a non-retryable error has made
\* exactly one remote attempt
C11_OneAttemptAlways ==
    \A c \in Calls :
        (Resolved(c) /\ call[c].result \in NonRetryableErrors) => call[c].attempts = 1

\* C11 amended: an attempt answered with an error other than 429 and 5xx is
\* the call's last: the call is over at once with that error as it came, no
\* backoff and no retry; it is the only attempt so answered, the earlier ones
\* being the retried 429 and 5xx answers, and the call's only attempt when
\* there were none
C11_NonRetryableFailsAtOnce ==
    \A c \in Calls :
        /\ AnsweredNonRetryable(c) =>
              /\ call[c].pc = "done"
              /\ call[c].sleep = 0
              /\ call[c].result = ErrorOfResponse(call[c].resp[1])
              /\ call[c].result \in NonRetryableErrors
        /\ (Resolved(c) /\ call[c].result \in NonRetryableErrors) =>
              /\ AnsweredNonRetryable(c)
              /\ call[c].attempts = call[c].got429 + call[c].got5xx + 1
              /\ call[c].n429 = call[c].got429
              /\ call[c].n5xx = call[c].got5xx
              /\ (call[c].got429 = 0 /\ call[c].got5xx = 0) => call[c].attempts = 1

\* the first attempt was answered with the quota error and the call is over
C11_Witness ==
    \E c \in Calls :
        /\ Resolved(c)
        /\ call[c].attempts = 1
        /\ call[c].resp[1].status = 403
        /\ call[c].result = "QuotaExceededError"

\* ------------------------------------------------------------------------
\* Properties: CacheLayer
\* ------------------------------------------------------------------------
\* the latest put of key k, when there is one
LastPut(k) == stored[k][1]

\* C12: right after put(k, v, groups, ttl) the entry of k is exactly
\* (v, groups, ttl), whatever was stored under k before, and a get(k) with no
\* time passed and no invalidation since that put answers v
C12_PutThenGet ==
    \A k \in DOMAIN cache :
        /\ (lastOp.op = "put" /\ lastOp.key = k) =>
              /\ cache[k] = Entry(LastPut(k).value, lastOp.groups, LastPut(k).ttl)
              /\ LastPut(k).age = 0
        /\ (lastOp.op = "get" /\ lastOp.key = k /\ stored[k] # NoPut
               /\ LastPut(k).age = 0 /\ ~LastPut(k).dropped) =>
              lastOp.res = <<LastPut(k).value>>

\* a get answered the value of a put that had replaced a live entry of
\* another value, other groups and another expiry
C12_Witness ==
    \E k \in DOMAIN cache :
        /\ lastOp.op = "get"
        /\ lastOp.key = k
        /\ stored[k] # NoPut
        /\ LastPut(k).over
        /\ LastPut(k).age = 0
        /\ ~LastPut(k).dropped
        /\ lastOp.res = <<LastPut(k).value>>

\* C13: a get of a key whose ttl has elapsed since its put is a miss, also
\* when the key was never invalidated, and leaves the cache as a get of a
\* key never stored does: without an entry for the key
C13_ExpiredIsMiss ==
    \A k \in DOMAIN cache :
        (lastOp.op = "get" /\ lastOp.key = k) =>
            /\ (stored[k] = NoPut \/ LastPut(k).age >= LastPut(k).ttl) =>
                  /\ lastOp.res = <<>>
                  /\ cache[k] = NoEntry
            /\ lastOp.res = <<>> => cache[k] = NoEntry

\* a get of a key put with the longest ttl, never invalidated, missed
C13_Witness ==
    \E k \in DOMAIN cache :
        /\ lastOp.op = "get"
        /\ lastOp.key = k
        /\ stored[k] # NoPut
        /\ LastPut(k).ttl = MaxTtl
        /\ LastPut(k).age = MaxTtl
        /\ ~LastPut(k).dropped
        /\ lastOp.res = <<>>

\* C14: invalidate(G) removes the entries whose groups include G and leaves
\* every other entry as it was; a label change removes the entries of the
\* groups it declares and no other entry
C14_InvalidateExactlyGroup ==
    [][lastOp'.op \in {"invalidate", "bulkAction"} =>
          \A k \in DOMAIN cache :
              cache'[k] = IF cache[k].present /\ cache[k].groups \cap lastOp'.groups # {}
                          THEN NoEntry
                          ELSE cache[k]]_vars

\* invalidate("label-counts") has removed an entry and a live entry of
\* another group is still there
C14_Witness ==
    \E k1, k2 \in DOMAIN cache :
        /\ lastOp.op = "invalidate"
        /\ lastOp.groups = {"label-counts"}
        /\ stored[k1] # NoPut
        /\ LastPut(k1).dropped
        /\ LastPut(k1).age < LastPut(k1).ttl
        /\ ~cache[k1].present
        /\ Live(cache[k2])
        /\ cache[k2].groups = {"labels"}

\* ------------------------------------------------------------------------
\* Properties: AccessFacade and the cache
\* ------------------------------------------------------------------------
\* C16: a thread list that was cached when its account changed labels is
\* not answered from the cache: until it is read again it is a miss, and the
\* list-threads read that comes next fetches it remotely, once
C16_ReadAfterMutationMisses ==
    /\ \A k \in dirty : get(cache, k) = <<>>
    /\ (lastCmd.op = "listThreads" /\ lastCmd.wasDirty) =>
          /\ lastCmd.hits = {}
          /\ lastCmd.fetched = lastCmd.accounts
          /\ Cardinality(lastCmd.fetched) = 1

\* the list of a@x.com was cached, a label change went through, and the read
\* that followed fetched the list and cached it again
C16_Witness ==
    /\ lastCmd.op = "listThreads"
    /\ lastCmd.wasDirty
    /\ lastCmd.ok
    /\ lastCmd.fetched = {"a@x.com"}
    /\ dirty = {}
    /\ Live(cache[ThreadListKey("a@x.com", Query)])

\* C17: a value a command takes from the cache for one account is a value
\* that was fetched for that account
C17_NoCrossAccountRead ==
    \A h \in lastCmd.hits : h[2] = RemoteValue(h[1])

\* ------------------------------------------------------------------------
\* Properties: CredentialStore
\* ------------------------------------------------------------------------
\* tokens whose expiry has passed
ExpiryPassed(tokens) == tokens.expiry = <<0>>

\* C15: a refresh whose response omits the refresh token leaves the refresh
\* token of the stored credential in what is persisted and in what is handed
\* back, on every path that refreshes: no row and no tokens file is ever
\* without the refresh token its login gave or a refresh rotated in
C15_RefreshTokenKept ==
    /\ \A e \in Accounts :
          (proc[e].refreshed /\ proc[e].got = <<>>) =>
              proc[e].client[1].refresh = proc[e].tokens[1].refresh
    /\ \A e \in Accounts : accounts[e] # <<>> => accounts[e][1].refresh # <<>>
    /\ tokensFile # <<>> => tokensFile[1].tokens.refresh # <<>>

\* C18: an account whose authenticateAccount failed, for want of a row or by
\* a rejected refresh, gets no client and no remote mailbox call, and its
\* refresh was tried at most once; remote calls are made only once every
\* selected account has its client; a failed command carries the error of
\* the account that failed and has made no remote call
C18_AuthRequiredAborts ==
    /\ \A e \in Accounts :
          /\ proc[e].pc = "failed" =>
                /\ ~proc[e].called
                /\ proc[e].client = <<>>
                /\ proc[e].tried <= 1
          /\ proc[e].called => cmd.st = "calling"
    /\ cmd.st = "calling" => \A e \in cmd.sel : proc[e].pc = "ready"
    /\ cmd.st = "failed" =>
          /\ cmd.err # ""
          /\ \A e \in Accounts : ~proc[e].called
          /\ cmd.sel # {} => \E e \in cmd.sel : proc[e].pc = "failed" /\ proc[e].err = cmd.err

\* the refresh of one account was rejected as unauthorized; the command
\* failed with that error although the other account had its client
C18_Witness ==
    \E e, f \in Accounts :
        /\ cmd.st = "failed"
        /\ cmd.err = "auth"
        /\ cmd.err \in AuthRequired
        /\ proc[e].pc = "failed"
        /\ proc[e].err = "auth"
        /\ proc[e].tried = 1
        /\ proc[f].pc = "ready"
        /\ ~proc[f].called

\* C19: the step in which a refresh exchange fails writes nothing, neither
\* to the accounts table nor to the tokens file, and hands no client back;
\* an authorization failure is an Auth-Required error, any other failure is
\* surfaced as the error it was and asks for no login
C19_FailedRefreshWritesNothing ==
    /\ [][\A e \in Accounts :
             (proc[e].pc = "refreshing" /\ proc'[e].pc = "failed") =>
                 /\ accounts' = accounts
                 /\ tokensFile' = tokensFile
                 /\ proc'[e].client = <<>>]_vars
    /\ [](\A e \in Accounts :
             (proc[e].pc = "failed" /\ proc[e].tried = 1) =>
                 /\ proc[e].err \in RefreshFailures \cup {"no-record"}
                 /\ proc[e].err \in AuthRequired <=> proc[e].err = "auth")

\* a refresh failed for a reason other than authorization and the row still
\* holds the expired tokens that were read
C19_Witness ==
    \E e \in Accounts :
        /\ proc[e].pc = "failed"
        /\ proc[e].err = "network"
        /\ accounts[e] = proc[e].tokens
        /\ ExpiryPassed(accounts[e][1])

\* C20: authenticateAccount hands a client back after a refresh exactly when
\* the expiry of the tokens it read had passed; the credentials of the client
\* are not expired; and when it refreshed, the row holds the merged
\* credentials of the client at the moment it is handed back
C20_RefreshWhenExpired ==
    /\ [](\A e \in Accounts : proc[e].pc = "ready" =>
             /\ proc[e].refreshed <=> ExpiryPassed(proc[e].tokens[1])
             /\ ~ExpiryPassed(proc[e].client[1])
             /\ ~proc[e].refreshed => proc[e].client = proc[e].tokens)
    /\ [][\A e \in Accounts :
             (proc[e].pc # "ready" /\ proc'[e].pc = "ready" /\ proc'[e].refreshed) =>
                 /\ accounts'[e] = proc'[e].client
                 /\ \E r \in RefreshResponses :
                       proc'[e].client[1] = Cred(r.access,
                            IF r.refresh = <<>> THEN proc[e].tokens[1].refresh ELSE r.refresh,
                            r.expiry)]_vars

\* expired tokens were refreshed by a response without a refresh token, and
\* the client and the row hold the new expiry and the old refresh token
C20_Witness ==
    \E e \in Accounts :
        /\ proc[e].pc = "ready"
        /\ proc[e].refreshed
        /\ proc[e].got = <<>>
        /\ ExpiryPassed(proc[e].tokens[1])
        /\ proc[e].client[1].expiry = <<TokenLife>>
        /\ proc[e].client[1].refresh = <<"r0">>
        /\ accounts[e] = proc[e].client

\* ------------------------------------------------------------------------
\* Properties: CredentialStore, migration and the accounts table
\* ------------------------------------------------------------------------
\* the emails with a row in the table
Registered(accts) == {e \in Accounts : accts[e] # <<>>}

\* a step in which a command runs getClients (and with it the migration)
GetClientsStep == cmd.st = "idle" /\ cmd'.st # "idle"

C22_OneRowPerEmail ==
    \A e \in Accounts : Len(accounts[e]) <= 1

\* the row of a@x.com was expired when the running command read it and holds
\* the tokens of a login now: the account logged in again meanwhile, and its
\* row was updated in place
C22_Witness ==
    /\ proc["a@x.com"].pc = "refreshing"
    /\ ExpiryPassed(proc["a@x.com"].tokens[1])
    /\ accounts["a@x.com"] = <<FreshCred>>
    /\ accounts["b@x.com"] # <<>>

\* the stored accounts a filter matches: all of them when the filter is empty
Matching(accts, filter) ==
    IF filter = {} THEN Registered(accts) ELSE Registered(accts) \cap filter

\* getClient has answered: with its client, or with an error
Answered == cmd.single /\ cmd.st \in {"calling", "failed"}

\* C27 as stated: getClient returns a client if and only if exactly one
\* stored account matches the filter.
C27_ClientIffOneMatch ==
    Answered => (cmd.st = "calling" <=> Cardinality(cmd.sel) = 1)

\* C27: getClient returns a client only if exactly one stored account matches
\* the filter (all stored accounts when the filter is empty); it fails when no
\* account is registered, when none matches and when several match; when
\* exactly one matches it returns the client unless the authentication of
\* that account failed, and then it fails with that account's error.
C27_ClientOnlyIfOneMatch ==
    /\ [][(GetClientsStep /\ cmd'.single) =>
            LET matched == Matching(accounts', cmd'.filter)
            IN /\ Registered(accounts') = {} => (cmd'.st = "failed" /\ cmd'.err = "no-accounts")
               /\ (Registered(accounts') # {} /\ matched = {}) =>
                     (cmd'.st = "failed" /\ cmd'.err = "no-match")
               /\ matched # {} => (cmd'.st = "auth" /\ cmd'.sel = matched)]_vars
    /\ [](Answered =>
            /\ cmd.st = "calling" =>
                  /\ Cardinality(cmd.sel) = 1
                  /\ \A e \in cmd.sel : proc[e].pc = "ready" /\ proc[e].client # <<>>
            /\ Cardinality(cmd.sel) > 1 => cmd.st = "failed"
            /\ (Cardinality(cmd.sel) = 1 /\ cmd.st = "failed") =>
                  \A e \in cmd.sel : proc[e].pc = "failed" /\ cmd.err = proc[e].err)

\* getClient failed although the filter matched exactly one stored account:
\* the account's tokens had expired and the refresh exchange failed
C27_Witness ==
    /\ Answered
    /\ cmd.st = "failed"
    /\ cmd.filter = {"a@x.com"}
    /\ cmd.sel = {"a@x.com"}
    /\ Registered(accounts) = Accounts
    /\ cmd.err = "network"

\* ------------------------------------------------------------------------
\* Properties: the mutation commands
\* ------------------------------------------------------------------------
\* C28: a delete command (draft delete, label delete) issues its remote
\* deletion only if --force was given or the user answered the prompt with y;
\* in every other case nothing is deleted.
C28_DeleteNeedsForceOrYes ==
    (lastCmd.op \in DeleteOps /\ lastCmd.called) =>
        \/ lastCmd.force
        \/ lastCmd.asked /\ lastCmd.answer \in {"y", "Y"}

\* the entries a step removes from the cache
Removed == {k \in DOMAIN cache : Live(cache[k]) /\ ~Live(cache'[k])}

\* C29: a mutation command invalidates only after its remote call returned:
\* the step up to the call leaves the cache as it is, entries are removed by no
\* step but the successful return of the call, and a call that fails leaves
\* the cache unchanged.
C29_InvalidateAfterSuccess ==
    [][/\ lastCmd'.st \in {"calling", "cancelled"} => cache' = cache
       /\ Removed # {} =>
             /\ lastCmd.op \in MutationOps
             /\ lastCmd.st = "calling"
             /\ lastCmd.called
             /\ lastCmd'.st = "done"
       /\ (lastCmd.st = "calling" /\ lastCmd'.st = "failed") => cache' = cache]_vars

\* the remote call of a bulk action on t1 failed: the cached thread, thread
\* list and label counts are all still there
C29_Witness ==
    /\ lastCmd.op = "bulkAction"
    /\ lastCmd.st = "failed"
    /\ lastCmd.ids = {"t1"}
    /\ lastCmd.removed = {}
    /\ Live(cache[ThreadKey("t1")])
    /\ Live(cache[ThreadListKey("a@x.com", Query)])
    /\ Live(cache[LabelCountsKey])

\* the live entries stored under one of the groups
InGroups(c, groups) == {k \in DOMAIN c : Live(c[k]) /\ c[k].groups \cap groups # {}}

\* C30: a successful thread mutation removes exactly the entries of the
\* targeted threads, of the thread-list group and of the label-counts group;
\* creating or deleting a label removes the entries of the labels group;
\* sending a draft removes the entries of the thread-list group; every
\* entry that is not removed is left as it was.
C30_DeclaredGroupsCleared ==
    [][(lastCmd.st = "calling" /\ lastCmd'.st = "done") =>
          /\ lastCmd.op = "bulkAction" =>
                Removed = InGroups(cache, {ThreadGroup(id) : id \in lastCmd.ids}
                                             \cup {"thread-lists", "label-counts"})
          /\ lastCmd.op = "labelCreate" => Removed = InGroups(cache, {"labels"})
          /\ lastCmd.op = "labelDelete" => InGroups(cache, {"labels"}) \subseteq Removed
          /\ lastCmd.op = "draftSend" => Removed = InGroups(cache, {"thread-lists"})
          /\ \A k \in DOMAIN cache \ Removed : cache'[k] = cache[k]]_vars

\* a bulk action on t1 with everything cached removed t1, the thread list and
\* the label counts, and left t2, the labels and the profile
C30_Witness ==
    /\ lastCmd.op = "bulkAction"
    /\ lastCmd.st = "done"
    /\ lastCmd.ids = {"t1"}
    /\ lastCmd.removed = {ThreadKey("t1"), ThreadListKey("a@x.com", Query), LabelCountsKey}
    /\ Live(cache[ThreadKey("t2")])
    /\ Live(cache[LabelsKey])
    /\ Live(cache[ProfileKey("a@x.com")])

\* the entries a change of the given threads makes stale: the threads, the
\* thread lists and the label counts
Affected(ids) ==
    {ThreadKey(id) : id \in ids} \cup {ThreadListKey("a@x.com", Query), LabelCountsKey}

\* C31: after a successful mutation that changes thread state, the bulk
\* "trash all spam" action included, no entry the mutation may have changed
\* (a changed thread, a thread list, the label counts) is still served from
\* the cache.
C31_NoStaleEntryAfterThreadMutation ==
    (lastCmd.op \in ThreadOps /\ lastCmd.st = "done") =>
        \A k \in Affected(lastCmd.changed) : get(cache, k) = <<>>

\* ------------------------------------------------------------------------
\* Properties: reads and writes in flight together
\* ------------------------------------------------------------------------
\* C32: once the invalidation of a mutation has run, every cache hit for a
\* key the mutation affected returns what the remote service holds since that
\* mutation, also when a read-through that fetched before the mutation stores
\* its value after the invalidation.
C32_NoStaleHitAfterWrite ==
    \A r \in DOMAIN reads : reads[r].hit => ~reads[r].stale

Steps(r) == reads'[r] # reads[r]

\* C35: a read with --no-cache neither consults nor writes the cache: it
\* makes the remote fetch and leaves every entry as it was. Without the
\* bypass a hit makes no remote fetch, and a miss fetches and stores the
\* result before it returns it.
C35_BypassLeavesCacheAlone ==
    [][\A r \in DOMAIN reads : Steps(r) =>
          /\ reads'[r].noCache =>
                 /\ cache' = cache
                 /\ ~reads'[r].hit
                 /\ reads'[r].pc = "done" => reads'[r].fetched
          /\ (~reads'[r].noCache /\ reads'[r].faults = 0) =>
                 /\ reads[r].pc \notin {"fetching", "fetched"} =>
                        (reads'[r].hit <=> Live(cache[reads'[r].key]))
                 /\ reads'[r].hit =>
                        /\ reads'[r].pc = "done"
                        /\ ~reads'[r].fetched
                        /\ reads'[r].value = <<cache[reads'[r].key].value>>
                 /\ (reads'[r].pc = "done" /\ ~reads'[r].hit) =>
                        /\ reads'[r].fetched
                        /\ get(cache', reads'[r].key) = reads'[r].value]_vars

\* a read with --no-cache of the labels, which were cached, returned the
\* fetched labels, newer than the cached ones, and the entry is as it was
C35_Witness ==
    \E r \in DOMAIN reads :
        /\ reads[r].pc = "done"
        /\ reads[r].noCache
        /\ reads[r].key = LabelsKey
        /\ reads[r].fetched
        /\ reads[r].saw
        /\ Live(cache[LabelsKey])
        /\ reads[r].value # <<cache[LabelsKey].value>>

\* ------------------------------------------------------------------------
\* Properties: calls for one account in flight together
\* ------------------------------------------------------------------------
\* a credential with all its parts
Complete(tokens) == tokens.access # "" /\ tokens.refresh # <<>> /\ tokens.expiry # <<>>

\* the call p persists its refresh in this step
Persists(p) == proc[p].pc = "refreshing" /\ proc'[p].pc = "ready"

C38_RefreshNeverRecreatesRow ==
    [][(accounts[Shared] = <<>> /\ accounts'[Shared] # <<>>) =>
          (accounts'[Shared] = <<FreshCred>> /\ proc' = proc)]_vars

\* the account was logged out while a call was refreshing it: the call
\* failed for want of a row, and no row is there
C38_Witness ==
    \E p \in DOMAIN proc :
        /\ proc[p].pc = "failed"
        /\ proc[p].err = "no-record"
        /\ proc[p].tokens # <<>>
        /\ accounts[Shared] = <<>>

\* ------------------------------------------------------------------------
\* Properties: the profile command
\* ------------------------------------------------------------------------
\* C36: the profile command tolerates the failure of single accounts: every
\* matched account whose own profile and aliases were obtained is printed,
\* also when the work for another matched account failed, and no other
\* account is printed.
C36_ProfileToleratesFailures ==
    cmd.st = "printed" =>
        cmd.out = {e \in cmd.sel : proc[e].profile = "ok" /\ proc[e].aliases = "ok"}

\* both accounts matched; the aliases of b@x.com could not be fetched, and
\* the profile of a@x.com was printed
C36_Witness ==
    /\ cmd.st = "printed"
    /\ cmd.sel = Accounts
    /\ proc["b@x.com"].aliases = "failed"
    /\ cmd.out = {"a@x.com"}

\* ------------------------------------------------------------------------
\* Properties: the auth commands
\* ------------------------------------------------------------------------
\* the command of the step is an auth logout
LogoutStep == lastLogout' # lastLogout \/ gone' \ gone # {}

\* the rows the step deletes
Deleted == {e \in Accounts : accounts[e] # <<>> /\ accounts'[e] = <<>>}

\* C37: auth logout removes the row of its target and no other, and leaves
\* the rows of the other accounts as they were; it removes nothing when no
\* account is stored, when no email is given and several accounts are stored,
\* when the given email is not a stored account, when it runs without a
\* terminal and without --force, and when the answer to the prompt is not y.
C37_LogoutRemovesOnlyTarget ==
    [][LogoutStep =>
          LET o == lastLogout' IN
          /\ Deleted \subseteq {o.target}
          /\ \A e \in Accounts \ {o.target} : accounts[e] # <<>> => accounts'[e] = accounts[e]
          /\ o.outcome = "removed" =>
                 (o.target \in o.listed /\ accounts'[o.target] = <<>>)
          /\ (\/ o.listed = {}
              \/ o.email = NoAccount /\ Cardinality(o.listed) > 1
              \/ o.email # NoAccount /\ o.email \notin o.listed
              \/ ~o.force /\ ~o.asked
              \/ ~o.force /\ o.answer \notin {"y", "Y"})
                 => (Deleted = {} /\ o.outcome # "removed"
                       /\ \A e \in o.listed : accounts'[e] # <<>>)]_vars

\* with both accounts stored, auth logout b@x.com was confirmed with y: the
\* row of b@x.com is gone and that of a@x.com is there
C37_Witness ==
    /\ lastLogout.outcome = "removed"
    /\ lastLogout.listed = Accounts
    /\ lastLogout.target = "b@x.com"
    /\ lastLogout.asked /\ lastLogout.answer = "y"
    /\ accounts["b@x.com"] = <<>>
    /\ accounts["a@x.com"] # <<>>

\* C39: an account that auth logout removed is not in the accounts table
\* until a login brings it back: only login and the first migration into a
\* store that never held an account add an account.
C39_LoggedOutStaysOut ==
    \A e \in gone : accounts[e] = <<>>

====
